---- MODULE Spec2Model ----
(***************************************************************************)
(* A model of the http-tokio connection engine: the duplex channel, the    *)
(* request parser, the body reader, the response builder and the           *)
(* keep-alive loop of Connection::handle_with.                             *)
(*                                                                         *)
(* Text is modelled as a sequence of one-character strings, so that        *)
(* trimming, splitting, case folding and number parsing are computed the   *)
(* way the code computes them.                                             *)
(***************************************************************************)
EXTENDS Integers, Sequences, FiniteSets, TLC

(***************************************************************************)
(* Bounds of the model.                                                    *)
(***************************************************************************)
\* Largest number of requests the peer pipelines on one connection.
MaxPipelined == 2
\* Largest configured keep_alive_max, besides the default.
MaxKeepAliveMax == 2
\* Largest number of bytes of an incomplete line that a timed-out receive
\* is modelled to consume, besides consuming all of the incomplete line.
MaxPartial == 0
\* Largest number of bytes a read of the body returns when it returns fewer
\* than the bytes that are there and asked for.
MaxShortRead == 1
\* Largest number of characters of a request target.
MaxTarget == 3
\* Largest number of header lines of a request whose header block is varied.
MaxHeaderLines == 2
MaxValues == 2
MaxChunks == 2
MaxHolders == 2
MaxBody == 3

(***************************************************************************)
(* Program constants.                                                      *)
(***************************************************************************)
DefaultKeepAliveTimeout == 5
DefaultKeepAliveMax == 200
ChunkCap == 1024
OK == 200
BAD_REQUEST == 400
REQUEST_TIMEOUT == 408
INTERNAL_SERVER_ERROR == 500
HTTP_VERSION_NOT_SUPPORTED == 505

(***************************************************************************)
(* Text literals of the code.                                              *)
(***************************************************************************)
S_Connection == <<"C", "o", "n", "n", "e", "c", "t", "i", "o", "n">>
S_KeepAlive == <<"K", "e", "e", "p", "-", "A", "l", "i", "v", "e">>
S_close == <<"c", "l", "o", "s", "e">>
S_keep_alive == <<"k", "e", "e", "p", "-", "a", "l", "i", "v", "e">>
S_content_length == <<"c", "o", "n", "t", "e", "n", "t", "-", "l", "e", "n", "g", "t", "h">>
S_HTTP11 == <<"H", "T", "T", "P", "/", "1", ".", "1">>
S_Date == <<"D", "a", "t", "e">>
S_ContentType == <<"C", "o", "n", "t", "e", "n", "t", "-", "T", "y", "p", "e">>
S_ContentLength == <<"C", "o", "n", "t", "e", "n", "t", "-", "L", "e", "n", "g", "t", "h">>
S_TransferEncoding == <<"T", "r", "a", "n", "s", "f", "e", "r", "-", "E", "n", "c", "o", "d", "i", "n", "g">>
S_text_plain == <<"t", "e", "x", "t", "/", "p", "l", "a", "i", "n", ";", " ", "c", "h", "a", "r", "s", "e", "t", "=", "u", "t", "f", "-", "8">>
S_RequestTimeout == <<"R", "e", "q", "u", "e", "s", "t", " ", "T", "i", "m", "e", "o", "u", "t">>
S_invalid_request == <<"i", "n", "v", "a", "l", "i", "d", " ", "r", "e", "q", "u", "e", "s", "t", ":", " ">>
S_timeout_eq == <<"t", "i", "m", "e", "o", "u", "t", "=">>
S_max_eq == <<",", " ", "m", "a", "x", "=">>
E_Read == <<"c", "o", "u", "l", "d", " ", "n", "o", "t", " ", "r", "e", "a", "d", " ", "f", "r", "o", "m", " ", "T", "c", "p", "S", "t", "r", "e", "a", "m", ":", " ">>
E_Line == <<"i", "n", "v", "a", "l", "i", "d", " ", "r", "e", "q", "u", "e", "s", "t", " ", "l", "i", "n", "e", ":", " ">>
E_Ver == <<"u", "n", "s", "u", "p", "p", "o", "r", "t", "e", "d", " ", "h", "t", "t", "p", " ", "v", "e", "r", "s", "i", "o", "n", ":", " ">>
E_Hdr == <<"i", "n", "v", "a", "l", "i", "d", " ", "h", "e", "a", "d", "e", "r", ":", " ">>
E_Len == <<"i", "n", "v", "a", "l", "i", "d", " ", "c", "o", "n", "t", "e", "n", "t", " ", "l", "e", "n", "g", "t", "h", " ", "h", "e", "a", "d", "e", "r", ":", " ">>

(***************************************************************************)
(* Text operations of the standard library, as the code uses them.         *)
(***************************************************************************)
UpperLetters == <<"A", "B", "C", "D", "E", "F", "G", "H", "I", "J", "K", "L", "M", "N", "O", "P", "Q", "R", "S", "T", "U", "V", "W", "X", "Y", "Z">>
LowerLetters == <<"a", "b", "c", "d", "e", "f", "g", "h", "i", "j", "k", "l", "m", "n", "o", "p", "q", "r", "s", "t", "u", "v", "w", "x", "y", "z">>
Digits == <<"0", "1", "2", "3", "4", "5", "6", "7", "8", "9">>

\* Option values: None is the empty sequence, Some(v) the one-element one.
None == <<>>
Some(v) == <<v>>

ToLowerChar(c) ==
    IF \E i \in 1..26 : UpperLetters[i] = c
    THEN LowerLetters[CHOOSE i \in 1..26 : UpperLetters[i] = c]
    ELSE c

\* str::to_lowercase
ToLowercase(s) == IF s = <<>> THEN <<>> ELSE [i \in 1..Len(s) |-> ToLowerChar(s[i])]

\* str::eq_ignore_ascii_case
EqIgnoreAsciiCase(a, b) == ToLowercase(a) = ToLowercase(b)

\* char::is_whitespace on the characters of the model
IsWhitespace(c) == c \in {" ", "\t", "\n", "\r"}

RECURSIVE TrimEnd(_)
\* str::trim_end
TrimEnd(s) ==
    IF s = <<>> THEN <<>>
    ELSE IF IsWhitespace(s[Len(s)]) THEN TrimEnd(SubSeq(s, 1, Len(s) - 1))
    ELSE s

RECURSIVE TrimStart(_)
\* str::trim_start
TrimStart(s) ==
    IF s = <<>> THEN <<>>
    ELSE IF IsWhitespace(s[1]) THEN TrimStart(Tail(s))
    ELSE s

\* str::trim
Trim(s) == TrimStart(TrimEnd(s))

RECURSIVE TrimMatchesStart(_, _)
TrimMatchesStart(s, c) ==
    IF s = <<>> THEN <<>>
    ELSE IF s[1] = c THEN TrimMatchesStart(Tail(s), c)
    ELSE s

RECURSIVE TrimMatchesEnd(_, _)
TrimMatchesEnd(s, c) ==
    IF s = <<>> THEN <<>>
    ELSE IF s[Len(s)] = c THEN TrimMatchesEnd(SubSeq(s, 1, Len(s) - 1), c)
    ELSE s

\* str::trim_matches(char)
TrimMatches(s, c) == TrimMatchesStart(TrimMatchesEnd(s, c), c)

RECURSIVE SplitWhitespaceFrom(_, _)
\* the tokens of s, cur being the token under construction
SplitWhitespaceFrom(s, cur) ==
    IF s = <<>> THEN (IF cur = <<>> THEN <<>> ELSE <<cur>>)
    ELSE IF IsWhitespace(s[1])
         THEN (IF cur = <<>> THEN <<>> ELSE <<cur>>) \o SplitWhitespaceFrom(Tail(s), <<>>)
         ELSE SplitWhitespaceFrom(Tail(s), Append(cur, s[1]))

\* str::split_whitespace, collected
SplitWhitespace(s) == SplitWhitespaceFrom(s, <<>>)

\* the position of the first c in s, 0 if there is none
IndexOf(s, c) ==
    IF \E i \in 1..Len(s) : s[i] = c
    THEN CHOOSE i \in 1..Len(s) : s[i] = c /\ \A j \in 1..(i - 1) : s[j] # c
    ELSE 0

\* str::split_once(char): None, or Some(<<before, after>>)
SplitOnce(s, c) ==
    LET i == IndexOf(s, c)
    IN  IF i = 0 THEN None
        ELSE Some(<<SubSeq(s, 1, i - 1), SubSeq(s, i + 1, Len(s))>>)

\* the first piece of str::split(char)
SplitFirst(s, c) ==
    LET i == IndexOf(s, c)
    IN  IF i = 0 THEN s ELSE SubSeq(s, 1, i - 1)

DigitValue(c) == (CHOOSE i \in 1..10 : Digits[i] = c) - 1
IsDigit(c) == \E i \in 1..10 : Digits[i] = c

RECURSIVE DigitsValue(_, _)
DigitsValue(s, acc) ==
    IF s = <<>> THEN acc ELSE DigitsValue(Tail(s), acc * 10 + DigitValue(s[1]))

\* str::parse::<usize>: None, or Some(n). An optional "+" and then one or
\* more decimal digits.
ParseUsize(s) ==
    LET d == IF s # <<>> /\ s[1] = "+" THEN Tail(s) ELSE s
    IN  IF d = <<>> \/ \E i \in 1..Len(d) : ~IsDigit(d[i]) THEN None
        ELSE Some(DigitsValue(d, 0))

RECURSIVE Dec(_)
\* the Display form of an unsigned integer
Dec(n) == IF n < 10 THEN <<Digits[n + 1]>> ELSE Dec(n \div 10) \o <<Digits[(n % 10) + 1]>>

\* the Debug form of a string without characters to escape
Quoted(s) == <<"\"">> \o s \o <<"\"">>

(***************************************************************************)
(* Headers: a map from the lowercased name to the list of its values.      *)
(***************************************************************************)
HeadersNew == <<>>

HeadersInsert(h, key, value) == (ToLowercase(key) :> <<value>>) @@ h

HeadersAppend(h, key, value) ==
    LET k == ToLowercase(key)
    IN  IF k \in DOMAIN h THEN [h EXCEPT ![k] = Append(@, value)]
        ELSE (k :> <<value>>) @@ h

HeadersGet(h, key) ==
    LET k == ToLowercase(key)
    IN  IF k \in DOMAIN h /\ h[k] # <<>> THEN Some(h[k][1]) ELSE None

HeadersRemove(h, key) == [k \in (DOMAIN h) \ {ToLowercase(key)} |-> h[k]]

HeadersContainsKey(h, key) == ToLowercase(key) \in DOMAIN h

S_SetCookie == <<"S", "e", "t", "-", "C", "o", "o", "k", "i", "e">>

\* Headers::add_set_cookie
HeadersAddSetCookie(h, name, value) == HeadersAppend(h, S_SetCookie, name \o <<"=">> \o value)

\* the position at which the text `sep` first occurs in s, 0 if it does not
IndexOfText(s, sep) ==
    LET at(i) == i + Len(sep) - 1 <= Len(s) /\ SubSeq(s, i, i + Len(sep) - 1) = sep
    IN  IF \E i \in 1..Len(s) : at(i)
        THEN CHOOSE i \in 1..Len(s) : at(i) /\ \A j \in 1..(i - 1) : ~at(j)
        ELSE 0

\* str::split_once(&str): None, or Some(<<before, after>>)
SplitOnceText(s, sep) ==
    LET i == IndexOfText(s, sep)
    IN  IF i = 0 THEN None
        ELSE Some(<<SubSeq(s, 1, i - 1), SubSeq(s, i + Len(sep), Len(s))>>)

\* Headers::insert_header_line: Ok with the table after the insert, or Err
HeadersInsertHeaderLine(h, line) ==
    LET kv == SplitOnceText(line, <<":", " ">>)
    IN  IF kv = None THEN [ok |-> FALSE, headers |-> h]
        ELSE [ok |-> TRUE, headers |-> HeadersInsert(h, kv[1][1], kv[1][2])]

\* capitalize_key: the first character of each piece between "-" in upper case
CapitalizeKey(key) ==
    [i \in 1..Len(key) |->
        IF (i = 1 \/ key[i - 1] = "-") /\ \E j \in 1..26 : LowerLetters[j] = key[i]
        THEN UpperLetters[CHOOSE j \in 1..26 : LowerLetters[j] = key[i]]
        ELSE key[i]]

\* the texts of a list joined with a separator
RECURSIVE Join(_, _)
Join(texts, sep) ==
    IF texts = <<>> THEN <<>>
    ELSE IF Len(texts) = 1 THEN texts[1]
    ELSE texts[1] \o sep \o Join(Tail(texts), sep)

\* the orders in which the names of a table can be iterated
RECURSIVE OrdersOf(_)
OrdersOf(keys) ==
    IF keys = {} THEN {<<>>}
    ELSE UNION {{<<k>> \o o : o \in OrdersOf(keys \ {k})} : k \in keys}

KeyOrders(h) == OrdersOf(DOMAIN h)

\* the lines of Headers::to_string for the names taken in `order`
RECURSIVE HeaderLinesInOrder(_, _)
HeaderLinesInOrder(h, order) ==
    IF order = <<>> THEN <<>>
    ELSE [i \in 1..Len(h[order[1]]) |-> CapitalizeKey(order[1]) \o <<":", " ">> \o h[order[1]][i]]
            \o HeaderLinesInOrder(h, Tail(order))

\* Headers::to_string, the map being iterated in `order`
HeadersToString(h, order) == Join(HeaderLinesInOrder(h, order), <<"\r", "\n">>)

(***************************************************************************)
(* TcpIO: the readable half is the text `w` the peer sends, of which the   *)
(* first `p` bytes have been taken; `closed` says that the peer closes the *)
(* stream after the last byte of `w`.                                      *)
(***************************************************************************)
HasNewline(w, p) == \E i \in (p + 1)..Len(w) : w[i] = "\n"

\* the position of the last byte of the line that starts after p
LineEnd(w, p) ==
    IF HasNewline(w, p)
    THEN CHOOSE i \in (p + 1)..Len(w) : w[i] = "\n" /\ \A j \in (p + 1)..(i - 1) : w[j] # "\n"
    ELSE Len(w)

\* read_line completes once a newline or the end of the stream is seen
ReadLineReady(w, p, closed) == HasNewline(w, p) \/ closed

\* TcpIO::read_line: the byte count and the line without its terminator
ReadLine(w, p) ==
    [len |-> LineEnd(w, p) - p, line |-> TrimEnd(SubSeq(w, p + 1, LineEnd(w, p)))]

(***************************************************************************)
(* RequestError and its Display form.                                      *)
(***************************************************************************)
Err(kind, arg) == [kind |-> kind, arg |-> arg]

ErrorKinds == {"Read", "ConnectionClosed", "InvalidRequestLine", "UnsupportedHttpVersion", "InvalidHeader", "InvalidContentLength"}

ErrDisplay(err) ==
    CASE err.kind = "Read" -> E_Read \o err.arg
      [] err.kind = "ConnectionClosed" -> <<"T", "c", "p", " ", "c", "l", "i", "e", "n", "t", " ", "c", "l", "o", "s", "e", "d", " ", "c", "o", "n", "n", "e", "c", "t", "i", "o", "n">>
      [] err.kind = "InvalidRequestLine" -> E_Line \o Quoted(err.arg)
      [] err.kind = "UnsupportedHttpVersion" -> E_Ver \o Quoted(err.arg)
      [] err.kind = "InvalidHeader" -> E_Hdr \o Quoted(err.arg)
      [] err.kind = "InvalidContentLength" -> E_Len \o Quoted(err.arg)

(***************************************************************************)
(* Request::receive, cut at its await points: the request line, then one   *)
(* header line at a time.                                                  *)
(***************************************************************************)
\* PathOf with the query kept
PathOfKeepQuery(full_path) == <<"/">> \o TrimMatches(full_path, "/")

\* the path of a request target: the text before the first "?", without
\* leading and trailing "/", after one "/"
PathOf(full_path) == <<"/">> \o TrimMatches(SplitFirst(full_path, "?"), "/")

\* ParseRequestLine without the check for a read of zero bytes
ParseRequestLineNoClosedCheck(len, line) ==
    LET parts == SplitWhitespace(line)
    IN  IF Len(parts) < 3 THEN [err |-> Some(Err("InvalidRequestLine", line))]
        ELSE IF parts[3] # S_HTTP11 THEN [err |-> Some(Err("UnsupportedHttpVersion", parts[3]))]
        ELSE [err |-> None, method |-> parts[1], path |-> PathOf(parts[2])]

\* ParseRequestLine comparing the version without regard to case
ParseRequestLineAnyCaseVersion(len, line) ==
    LET parts == SplitWhitespace(line)
    IN  IF len = 0 THEN [err |-> Some(Err("ConnectionClosed", <<>>))]
        ELSE IF Len(parts) < 3 THEN [err |-> Some(Err("InvalidRequestLine", line))]
        ELSE IF ~EqIgnoreAsciiCase(parts[3], S_HTTP11)
             THEN [err |-> Some(Err("UnsupportedHttpVersion", parts[3]))]
        ELSE [err |-> None, method |-> parts[1], path |-> PathOf(parts[2])]

\* the request line: an error, or the method and the path
ParseRequestLine(len, line) ==
    LET parts == SplitWhitespace(line)
    IN  IF len = 0 THEN [err |-> Some(Err("ConnectionClosed", <<>>))]
        ELSE IF Len(parts) < 3 THEN [err |-> Some(Err("InvalidRequestLine", line))]
        ELSE IF parts[3] # S_HTTP11 THEN [err |-> Some(Err("UnsupportedHttpVersion", parts[3]))]
        ELSE [err |-> None, method |-> parts[1], path |-> PathOf(parts[2])]

\* ParseHeaderLine with the first stored ContentLength kept
ParseHeaderLineFirstLength(len, line, headers, content_length) ==
    LET kv == SplitOnce(line, ":")
        key == Trim(kv[1][1])
        value == Trim(kv[1][2])
    IN  IF len <= 2 THEN [kind |-> "end"]
        ELSE IF kv = None THEN [kind |-> "err", err |-> Err("InvalidHeader", line)]
        ELSE IF EqIgnoreAsciiCase(key, S_content_length)
        THEN IF ParseUsize(value) = None
             THEN [kind |-> "err", err |-> Err("InvalidContentLength", value)]
             ELSE [kind |-> "more",
                   headers |-> HeadersAppend(HeadersAppend(headers, key, value), key, value),
                   content_length |-> IF content_length = None THEN ParseUsize(value)
                                      ELSE content_length]
        ELSE [kind |-> "more",
              headers |-> HeadersAppend(headers, key, value),
              content_length |-> content_length]

\* one header line: the end of the block, an error, or the headers and the
\* stored ContentLength after the line
ParseHeaderLine(len, line, headers, content_length) ==
    LET kv == SplitOnce(line, ":")
        key == Trim(kv[1][1])
        value == Trim(kv[1][2])
    IN  IF len <= 2 THEN [kind |-> "end"]
        ELSE IF kv = None THEN [kind |-> "err", err |-> Err("InvalidHeader", line)]
        ELSE IF EqIgnoreAsciiCase(key, S_content_length)
        THEN IF ParseUsize(value) = None
             THEN [kind |-> "err", err |-> Err("InvalidContentLength", value)]
             ELSE [kind |-> "more",
                   headers |-> HeadersAppend(HeadersAppend(headers, key, value), key, value),
                   content_length |-> ParseUsize(value)]
        ELSE [kind |-> "more",
              headers |-> HeadersAppend(headers, key, value),
              content_length |-> content_length]

\* the lock of the store after `extensions.insert(..).await` with the guard
\* kept alive beyond the statement
LockKeptAfterInsert(l) == 1

\* the lock of the request's store after `extensions.insert(..).await` in
\* receive: the lock, free, is taken and the guard, a temporary, is dropped
\* at the end of the statement
LockAfterInsert(l) == 0

\* the lock of the store after a header line has been handled: only a
\* Content-Length line with a numeric value makes receive insert
LockAfterLine(l, len, line) ==
    LET kv == SplitOnce(line, ":")
    IN  IF len > 2 /\ kv # None /\ EqIgnoreAsciiCase(Trim(kv[1][1]), S_content_length)
           /\ ParseUsize(Trim(kv[1][2])) # None
        THEN LockAfterInsert(l)
        ELSE l

\* IncomingRequest::content_len
ContentLen(request) == request.content_length

(***************************************************************************)
(* Response and ResponseBuilder.                                           *)
(***************************************************************************)
\* the current time in HTTP date form: a value of the environment
DateNow == <<"n", "o", "w">>

NoBody == [kind |-> "None"]
BytesBody(bytes) == [kind |-> "Bytes", bytes |-> bytes]

ResponseNew == [status |-> OK, headers |-> HeadersNew, body |-> NoBody]

ResponseBuild == [ResponseNew EXCEPT !.headers = HeadersInsert(@, S_Date, DateNow)]

BuilderStatus(b, status) == [b EXCEPT !.status = status]

BuilderHeader(b, header, value) == [b EXCEPT !.headers = HeadersInsert(@, header, value)]

BuilderBody(b, bytes) ==
    LET h1 == IF HeadersContainsKey(b.headers, S_ContentType) THEN b.headers
              ELSE HeadersInsert(b.headers, S_ContentType, S_text_plain)
        h2 == HeadersInsert(h1, S_ContentLength, Dec(Len(bytes)))
        h3 == HeadersRemove(h2, S_TransferEncoding)
    IN  [b EXCEPT !.headers = h3, !.body = BytesBody(bytes)]

BuilderEnd(b) == b

S_octet_stream == <<"a", "p", "p", "l", "i", "c", "a", "t", "i", "o", "n", "/", "o", "c", "t", "e", "t", "-", "s", "t", "r", "e", "a", "m">>
S_chunked == <<"c", "h", "u", "n", "k", "e", "d">>

\* a stream body: the chunks it yields and whether an error follows them
\* as its next item, instead of the end of the stream
StreamBody(chunks, fails) == [kind |-> "Stream", chunks |-> chunks, fails |-> fails]

\* ResponseBuilder::stream
BuilderStream(b, body) ==
    LET h1 == IF HeadersContainsKey(b.headers, S_ContentType) THEN b.headers
              ELSE HeadersInsert(b.headers, S_ContentType, S_octet_stream)
        h2 == HeadersRemove(h1, S_ContentLength)
        h3 == HeadersInsert(h2, S_TransferEncoding, S_chunked)
    IN  [b EXCEPT !.headers = h3, !.body = body]

\* ResponseBuilder::cookie
BuilderCookie(b, key, value) == [b EXCEPT !.headers = HeadersAddSetCookie(@, key, value)]

\* HttpResponse::into_builder
IntoBuilder(response) == response

\* the Display form of a StatusCode
StatusDisplay(status) ==
    Dec(status) \o <<" ">> \o
    ( CASE status = OK -> <<"O", "k">>
        [] status = BAD_REQUEST -> <<"B", "a", "d", "R", "e", "q", "u", "e", "s", "t">>
        [] status = REQUEST_TIMEOUT -> <<"R", "e", "q", "u", "e", "s", "t", "T", "i", "m", "e", "o", "u", "t">>
        [] status = INTERNAL_SERVER_ERROR -> <<"I", "n", "t", "e", "r", "n", "a", "l", "S", "e", "r", "v", "e", "r", "E", "r", "r", "o", "r">>
        [] status = HTTP_VERSION_NOT_SUPPORTED -> <<"H", "T", "T", "P", "V", "e", "r", "s", "i", "o", "n", "N", "o", "t", "S", "u", "p", "p", "o", "r", "t", "e", "d">>
        [] OTHER -> <<"U", "n", "k", "n", "o", "w", "n">> )

\* Response::fmt_head, the headers being iterated in `order`
FmtHead(response, order) ==
    S_HTTP11 \o <<" ">> \o StatusDisplay(response.status) \o <<" ", "\r", "\n">>
        \o HeadersToString(response.headers, order) \o <<"\r", "\n", "\r", "\n">>

HexDigits == <<"0", "1", "2", "3", "4", "5", "6", "7", "8", "9", "A", "B", "C", "D", "E", "F">>

\* the {:X} form of an unsigned integer
RECURSIVE Hex(_)
Hex(n) == IF n < 16 THEN <<HexDigits[n + 1]>> ELSE Hex(n \div 16) \o <<HexDigits[(n % 16) + 1]>>

\* HttpResponse::send, stream body: what the loop writes for the chunks
RECURSIVE WriteChunks(_)
WriteChunks(chunks) ==
    IF chunks = <<>> THEN <<>>
    ELSE Hex(Len(chunks[1])) \o <<"\r", "\n">> \o chunks[1] \o <<"\r", "\n">>
            \o WriteChunks(Tail(chunks))

\* WriteStream with the end of the stream written after an error too
WriteStreamTerminated(body) == WriteChunks(body.chunks) \o <<"0", "\r", "\n", "\r", "\n">>

\* HttpResponse::send, stream body: what is written after the head; an
\* error of the stream returns from send before the end of stream is written
WriteStream(body) ==
    WriteChunks(body.chunks) \o (IF body.fails THEN <<>> ELSE <<"0", "\r", "\n", "\r", "\n">>)

\* HttpResponse::send: the bytes handed to the writer when no write fails
SendPayload(response, order) ==
    FmtHead(response, order) \o
    ( CASE response.body.kind = "Bytes" -> response.body.bytes
        [] response.body.kind = "Stream" -> WriteStream(response.body)
        [] OTHER -> <<>> )

\* HttpResponse::send: Ok, after the flush, or the error of the stream,
\* returned without a flush
SendResult(response) ==
    IF response.body.kind = "Stream" /\ response.body.fails
    THEN [ok |-> FALSE, flushed |-> FALSE]
    ELSE [ok |-> TRUE, flushed |-> TRUE]

(***************************************************************************)
(* ConnectionEventsHandler: the default methods.                           *)
(***************************************************************************)
DefaultHandleClientError(err, status_code) ==
    BuilderBody(BuilderStatus(ResponseBuild, status_code), S_invalid_request \o ErrDisplay(err))

DefaultHandleTimeout ==
    BuilderBody(BuilderHeader(BuilderStatus(ResponseBuild, REQUEST_TIMEOUT), S_Connection, S_close), S_RequestTimeout)

(***************************************************************************)
(* Connection::handle_with: the pure steps of the keep-alive loop.         *)
(***************************************************************************)
\* ErrorStatus without the arm for InvalidContentLength
ErrorStatusNoContentLengthArm(err) ==
    CASE err.kind = "InvalidHeader" -> BAD_REQUEST
      [] err.kind = "UnsupportedHttpVersion" -> HTTP_VERSION_NOT_SUPPORTED
      [] OTHER -> INTERNAL_SERVER_ERROR

\* the status of a receive error other than ConnectionClosed
ErrorStatus(err) ==
    CASE err.kind = "InvalidHeader" -> BAD_REQUEST
      [] err.kind = "InvalidContentLength" -> BAD_REQUEST
      [] err.kind = "UnsupportedHttpVersion" -> HTTP_VERSION_NOT_SUPPORTED
      [] OTHER -> INTERNAL_SERVER_ERROR

\* the value of the Keep-Alive header the engine advertises
KeepAliveValue(timeout, max) == S_timeout_eq \o Dec(timeout) \o S_max_eq \o Dec(max)

\* DeriveConnection comparing the request's Connection value with "close"
\* case-sensitively
DeriveConnectionCaseSensitive(response, request, timeout, max) ==
    IF HeadersContainsKey(response.headers, S_Connection) THEN response
    ELSE LET got == HeadersGet(request.headers, S_Connection)
             connection == IF got = None THEN S_keep_alive ELSE got[1]
         IN  IF connection = S_close
             THEN [response EXCEPT !.headers =
                      HeadersRemove(HeadersInsert(@, S_Connection, S_close), S_KeepAlive)]
             ELSE [response EXCEPT !.headers =
                      HeadersInsert(HeadersInsert(@, S_Connection, S_keep_alive),
                                    S_KeepAlive, KeepAliveValue(timeout, max))]

\* the response of the request handler with the keep-alive headers derived
DeriveConnection(response, request, timeout, max) ==
    IF HeadersContainsKey(response.headers, S_Connection) THEN response
    ELSE LET got == HeadersGet(request.headers, S_Connection)
             connection == IF got = None THEN S_keep_alive ELSE got[1]
         IN  IF EqIgnoreAsciiCase(connection, S_close)
             THEN [response EXCEPT !.headers =
                      HeadersRemove(HeadersInsert(@, S_Connection, S_close), S_KeepAlive)]
             ELSE [response EXCEPT !.headers =
                      HeadersInsert(HeadersInsert(@, S_Connection, S_keep_alive),
                                    S_KeepAlive, KeepAliveValue(timeout, max))]

\* ShouldClose with the counter compared by > instead of >=
ShouldCloseOneLate(response, count, max) ==
    count > max \/ HeadersGet(response.headers, S_KeepAlive) = None

\* the continue-or-close decision after a response has been sent
ShouldClose(response, count, max) ==
    count >= max \/ HeadersGet(response.headers, S_KeepAlive) = None

\* ToRead without the cap on the size of a read
ToReadUncapped(rem) == rem

\* ToRead without the counter: a full buffer is asked for every time
ToReadFixed(rem) == ChunkCap

\* BodyReader: the size of the next read
ToRead(rem) == IF ChunkCap < rem THEN ChunkCap ELSE rem

\* BodyReader::next: the counter after a read of `read` bytes
NextRemaining(rem, read) == IF read = 0 THEN 0 ELSE rem - read

\* a drain that reads nothing
DrainSkipped(rem) == FALSE

\* BodyReader::drain: whether the loop goes on with the counter at `rem`
DrainContinues(rem) == rem # 0

(***************************************************************************)
(* What the peer sends: up to MaxPipelined request texts, one after the    *)
(* other, each well-formed or broken in one of the ways the parser tells   *)
(* apart.                                                                  *)
(***************************************************************************)
L_RequestLine == <<"G", " ", "/", " ", "H", "T", "T", "P", "/", "1", ".", "1", "\r", "\n">>
L_RequestLineQ == <<"g", " ", "/", "a", "/", "?", "q", " ", "H", "T", "T", "P", "/", "1", ".", "1", "\r", "\n">>
L_BadVersion == <<"G", " ", "/", " ", "H", "T", "T", "P", "/", "1", ".", "0", "\r", "\n">>
L_OneToken == <<"G", "\r", "\n">>
L_ConnClose == <<"C", "o", "n", "n", "e", "c", "t", "i", "o", "n", ":", " ", "C", "l", "o", "s", "e", "\r", "\n">>
L_ConnOther == <<"c", "o", "n", "n", "e", "c", "t", "i", "o", "n", ":", " ", "x", "\r", "\n">>
L_Len2 == <<"C", "o", "n", "t", "e", "n", "t", "-", "L", "e", "n", "g", "t", "h", ":", " ", "2", "\r", "\n">>
L_LenBad == <<"C", "o", "n", "t", "e", "n", "t", "-", "L", "e", "n", "g", "t", "h", ":", " ", "x", "\r", "\n">>
L_NoColon == <<"N", "o", "C", "o", "l", "o", "n", "\r", "\n">>
L_End == <<"\r", "\n">>
L_Partial == <<"G", " ", "/", " ", "H">>

\* requests after which the connection can be kept alive
CompleteTexts ==
    { L_RequestLine \o L_End,
      L_RequestLine \o L_Len2 \o L_End \o <<"x", "\n">> }

\* requests that ask for the connection to be closed, or are broken or cut
LastTexts ==
    { L_RequestLine \o L_Len2 \o L_End \o <<"x">>,
      L_RequestLineQ \o L_ConnClose \o L_End,
      L_RequestLine \o L_ConnOther \o L_End,
      L_BadVersion,
      L_OneToken,
      L_RequestLine \o L_NoColon,
      L_RequestLine \o L_LenBad,
      L_Partial }

RECURSIVE WiresOf(_)
WiresOf(n) ==
    IF n = 0 THEN {<<>>}
    ELSE {<<>>} \cup LastTexts \cup {r \o w : r \in CompleteTexts, w \in WiresOf(n - 1)}

Wires == WiresOf(MaxPipelined)

(***************************************************************************)
(* The responses the pluggable handlers are taken to build.                *)
(***************************************************************************)
S_hi == <<"h", "i">>
S_other == <<"x">>

HandlerResponses ==
    { BuilderBody(ResponseBuild, S_hi),
      BuilderBody(BuilderHeader(ResponseBuild, ToLowercase(S_Connection), S_close), S_hi),
      BuilderBody(BuilderHeader(BuilderHeader(ResponseBuild, S_Connection, S_close), S_KeepAlive, S_other), S_hi),
      BuilderBody(BuilderHeader(ResponseBuild, S_Connection, S_other), S_hi),
      BuilderBody(BuilderHeader(ResponseBuild, S_KeepAlive, S_other), S_hi) }

ClientErrorResponses(handler, err, status_code) ==
    IF handler = "default" THEN {DefaultHandleClientError(err, status_code)}
    ELSE { BuilderBody(BuilderHeader(BuilderStatus(ResponseBuild, status_code), S_KeepAlive, S_other), S_hi),
           BuilderBody(BuilderHeader(BuilderStatus(ResponseBuild, status_code), S_Connection, S_keep_alive), S_hi) }

TimeoutResponses(handler) ==
    IF handler = "default" THEN {DefaultHandleTimeout}
    ELSE { BuilderBody(BuilderHeader(BuilderHeader(BuilderStatus(ResponseBuild, REQUEST_TIMEOUT), S_Connection, S_close), S_KeepAlive, S_other), S_hi),
           BuilderBody(BuilderStatus(ResponseBuild, REQUEST_TIMEOUT), S_hi) }

(***************************************************************************)
(* The state of one connection.                                            *)
(***************************************************************************)
VARIABLES
    wire,               \* the bytes the peer sends on the connection
    peer_closes,        \* whether the peer closes the stream after them
    pos,                \* TcpIO reader: the number of bytes taken so far
    out,                \* TcpIO writer: the number of responses handed to it
    keep_alive_timeout, \* Connection.keep_alive_timeout
    keep_alive_max,     \* Connection.keep_alive_max
    events_handler,     \* Connection.events_handler: "default" or "custom"
    handled_req_count,  \* handle_with: handled_req_count
    pc,                 \* handle_with: where the keep-alive loop stands
    rx,                 \* Request::receive: its locals while it runs
    req,                \* handle_with: the request received in this iteration
    remaining,          \* BodyReader.remaining
    res,                \* handle_with: the response of this iteration
    iter,               \* history: what this iteration has done so far
    prev,               \* history: what the iteration before it did
    builder,            \* a ResponseBuilder chain: the response it holds
    written,            \* the response a send was called on and the bytes it wrote
    table,              \* a Headers table built by its own methods
    reparsed,           \* the table re-read from the serialized form of `table`
    lock,               \* a tokio Mutex: the task that holds it, 0 when it is free
    task,               \* the tasks that share an object: where each of them stands
    server              \* run_server: where the accept loop stands and what it has done

vars == <<wire, peer_closes, pos, out, keep_alive_timeout, keep_alive_max, events_handler,
          handled_req_count, pc, rx, req, remaining, res, iter, prev,
          builder, written, table, reparsed, lock, task, server>>

peer == <<wire, peer_closes>>
config == <<keep_alive_timeout, keep_alive_max, events_handler>>
conc == <<lock, task, server>>
lib == <<builder, written, table, reparsed, conc>>
lib_rest == <<builder, written, table, reparsed, task, server>>

\* Largest number of iterations of the keep-alive loop that are explored.
MaxIterations == 3

NoRequest == [method |-> <<>>, path |-> <<>>, headers |-> HeadersNew, content_length |-> None]
NoResponse == [status |-> 0, headers |-> HeadersNew, body |-> NoBody]
RxLine == [phase |-> "line"]
NoBuilder == [stage |-> "none", inner |-> NoResponse]
NoWritten == [of |-> NoResponse, bytes |-> <<>>, result |-> None]

\* no builder chain is under way and no table is being built
LibIdle ==
    /\ builder = NoBuilder
    /\ written = NoWritten
    /\ table = HeadersNew
    /\ reparsed = None

NoServer == [at |-> "none"]

\* no tasks share an object and no server runs
ConcIdle ==
    /\ lock = 0
    /\ task = <<>>
    /\ server = NoServer

NoHeaders == [connection |-> None, keep_alive |-> None]

\* the Connection and Keep-Alive headers a response carries
ConnectionHeaders(response) ==
    [connection |-> HeadersGet(response.headers, S_Connection),
     keep_alive |-> HeadersGet(response.headers, S_KeepAlive)]

\* the history of an iteration that has just incremented the counter
NewIter ==
    [outcome |-> "Pending",   \* of the receive: Ok, Timeout or the kind of the error
     invoked |-> {},          \* the handlers called
     returned |-> FALSE,      \* the request handler has returned
     drained |-> FALSE,       \* drain() has returned Ok
     wrote |-> FALSE,         \* the response has been handed to the writer
     flushed |-> FALSE,       \* the writer has been flushed
     body_start |-> 0,        \* the reader position when the request was returned
     declared |-> 0,          \* the budget of the BodyReader
     taken |-> 0,             \* the body bytes the request handler has read
     first_len |-> -1,        \* the byte count of the first line read, once read
     status |-> 0,            \* the status passed to the client-error handler
     given |-> NoResponse,    \* the response as the handler called returned it
     sent |-> NoHeaders]      \* the connection headers of the response written

\* what is remembered of an iteration once the loop has gone on to the next
Summary(it) ==
    [outcome |-> it.outcome, returned |-> it.returned, drained |-> it.drained,
     wrote |-> it.wrote, flushed |-> it.flushed, body_start |-> it.body_start,
     declared |-> it.declared, taken |-> it.taken, sent |-> it.sent]

\* Connection::new with its defaults, and the connections that the builder
\* methods keep_alive_timeout, keep_alive_max and events_handler make of it
ConnectionNew == [keep_alive_timeout |-> DefaultKeepAliveTimeout,
                  keep_alive_max |-> DefaultKeepAliveMax,
                  events_handler |-> "default"]

Connections ==
    {ConnectionNew}
    \cup {[keep_alive_timeout |-> 1, keep_alive_max |-> max, events_handler |-> h] :
            max \in 0..MaxKeepAliveMax, h \in {"default", "custom"}}

\* a connection is accepted and configured; handle_with has not been called
Init ==
    /\ wire \in Wires
    /\ peer_closes \in BOOLEAN
    /\ pos = 0
    /\ out = 0
    /\ \E c \in Connections :
          /\ keep_alive_timeout = c.keep_alive_timeout
          /\ keep_alive_max = c.keep_alive_max
          /\ events_handler = c.events_handler
    /\ handled_req_count = 0
    /\ pc = "Created"
    /\ rx = RxLine
    /\ req = NoRequest
    /\ remaining = 0
    /\ res = NoResponse
    /\ iter = NewIter
    /\ prev = Summary(NewIter)
    /\ LibIdle
    /\ ConcIdle

\* HandleWith with the request limit tested before the first receive
HandleWithChecksLimit ==
    /\ pc = "Created"
    /\ IF handled_req_count >= keep_alive_max
       THEN /\ pc' = "Closed"
            /\ UNCHANGED <<handled_req_count, rx, iter>>
       ELSE /\ pc' = "AwaitingRequest"
            /\ handled_req_count' = handled_req_count + 1
            /\ rx' = RxLine
            /\ iter' = NewIter
    /\ UNCHANGED <<peer, pos, out, config, lib, req, remaining, res, prev>>

\* handle_with, to the first receive: the counter is incremented and
\* receive_request is awaited under the timeout
HandleWith ==
    /\ pc = "Created"
    /\ pc' = "AwaitingRequest"
    /\ handled_req_count' = handled_req_count + 1
    /\ rx' = RxLine
    /\ iter' = NewIter
    /\ UNCHANGED <<peer, pos, out, config, lib, req, remaining, res, prev>>

\* handle_with, the arms of `match t_req` for Ok(Err(err)): the loop breaks
\* on ConnectionClosed, any other error is answered by the client-error
\* handler's response with Connection: close forced onto it
ReceiveFailed(err, newpos, first_len) ==
    /\ pos' = newpos
    /\ rx' = RxLine
    /\ IF err.kind = "ConnectionClosed"
       THEN /\ pc' = "Closed"
            /\ iter' = [iter EXCEPT !.outcome = err.kind, !.first_len = first_len]
            /\ UNCHANGED res
       ELSE /\ pc' = "Responding"
            /\ \E r \in ClientErrorResponses(events_handler, err, ErrorStatus(err)) :
                  /\ res' = [r EXCEPT !.headers = HeadersInsert(@, S_Connection, S_close)]
                  /\ iter' = [iter EXCEPT !.outcome = err.kind,
                                          !.first_len = first_len,
                                          !.invoked = @ \cup {"handle_client_error"},
                                          !.status = ErrorStatus(err),
                                          !.given = r]
    /\ UNCHANGED <<peer, out, config, lib, handled_req_count, req, remaining, prev>>

\* Request::receive: the request line is read and parsed
ReceiveRequestLine ==
    /\ pc = "AwaitingRequest"
    /\ rx.phase = "line"
    /\ ReadLineReady(wire, pos, peer_closes)
    /\ LET r == ReadLine(wire, pos)
           parsed == ParseRequestLine(r.len, r.line)
       IN  IF parsed.err # None
           THEN ReceiveFailed(parsed.err[1], pos + r.len, r.len)
           ELSE /\ pos' = pos + r.len
                /\ rx' = [phase |-> "headers", method |-> parsed.method, path |-> parsed.path,
                          headers |-> HeadersNew, content_length |-> None]
                /\ iter' = [iter EXCEPT !.first_len = r.len]
                /\ lock' = 0
                /\ UNCHANGED <<peer, out, config, lib_rest, handled_req_count, pc, req, remaining,
                               res, prev>>

\* Request::receive: one header line is read and parsed; at the end of the
\* block the request is returned and handle_with builds the BodyReader
ReceiveHeaderLine ==
    /\ pc = "AwaitingRequest"
    /\ rx.phase = "headers"
    /\ ReadLineReady(wire, pos, peer_closes)
    /\ LET r == ReadLine(wire, pos)
           parsed == ParseHeaderLine(r.len, r.line, rx.headers, rx.content_length)
           request == [method |-> rx.method, path |-> rx.path, headers |-> rx.headers,
                       content_length |-> rx.content_length]
           c_len == IF ContentLen(request) = None THEN 0 ELSE ContentLen(request)[1]
       IN  CASE parsed.kind = "err" -> ReceiveFailed(parsed.err, pos + r.len, iter.first_len)
             [] parsed.kind = "more" ->
                  /\ pos' = pos + r.len
                  /\ rx' = [rx EXCEPT !.headers = parsed.headers,
                                      !.content_length = parsed.content_length]
                  /\ lock' = LockAfterLine(lock, r.len, r.line)
                  /\ UNCHANGED <<peer, out, config, lib_rest, handled_req_count, pc, req, remaining,
                                 res, iter, prev>>
             [] parsed.kind = "end" /\ lock # 0 ->
                  \* content_len: try_lock fails and get_sync_unsafe panics
                  /\ pos' = pos + r.len
                  /\ rx' = RxLine
                  /\ req' = request
                  /\ pc' = "Panicked"
                  /\ iter' = [iter EXCEPT !.outcome = "Ok"]
                  /\ UNCHANGED <<peer, out, config, lib, handled_req_count, remaining, res, prev>>
             [] parsed.kind = "end" /\ lock = 0 ->
                  /\ pos' = pos + r.len
                  /\ rx' = RxLine
                  /\ req' = request
                  /\ remaining' = c_len
                  /\ pc' = "Dispatching"
                  /\ iter' = [iter EXCEPT !.outcome = "Ok", !.invoked = @ \cup {"handle"},
                                          !.body_start = pos + r.len, !.declared = c_len]
                  /\ UNCHANGED <<peer, out, config, lib, handled_req_count, res, prev>>

\* Request::receive: a read of the channel fails
ReceiveReadError ==
    /\ pc = "AwaitingRequest"
    /\ ReceiveFailed(Err("Read", <<"i", "o">>), pos, iter.first_len)

\* the bytes of an incomplete line that an abandoned read_line has taken
AbandonedBytes(w, p) ==
    LET most == IF HasNewline(w, p) THEN LineEnd(w, p) - 1 - p ELSE Len(w) - p
    IN  {n \in 0..most : n <= MaxPartial \/ n = most}

\* handle_with, the arm of `match t_req` for Err(_): the timeout expires,
\* the receive is dropped and the timeout handler's response is taken
ReceiveTimeout ==
    /\ pc = "AwaitingRequest"
    /\ \E n \in AbandonedBytes(wire, pos) : pos' = pos + n
    /\ rx' = RxLine
    /\ \E r \in TimeoutResponses(events_handler) :
          /\ res' = r
          /\ iter' = [iter EXCEPT !.outcome = "Timeout", !.invoked = @ \cup {"handle_timeout"},
                                  !.given = r]
    /\ pc' = "Responding"
    /\ UNCHANGED <<peer, out, config, lib, handled_req_count, req, remaining, prev>>

\* the results a read of at most `to_read` bytes of the channel can have:
\* all of the bytes that are there and asked for or a few of them or, at the
\* end of a closed stream, 0
ReadResults(w, p, closed, to_read) ==
    LET there == IF Len(w) - p < to_read THEN Len(w) - p ELSE to_read
    IN  {n \in 1..there : n <= MaxShortRead \/ n = there}
            \cup (IF p = Len(w) /\ closed THEN {0} ELSE {})

\* the request handler calls BodyReader::next and the read returns
HandlerNext ==
    /\ pc = "Dispatching"
    /\ remaining # 0
    /\ \E read \in ReadResults(wire, pos, peer_closes, ToRead(remaining)) :
          /\ pos' = pos + read
          /\ remaining' = NextRemaining(remaining, read)
          /\ iter' = [iter EXCEPT !.taken = @ + read]
    /\ UNCHANGED <<peer, out, config, lib, handled_req_count, pc, rx, req, res, prev>>

\* the request handler calls BodyReader::next with nothing remaining (it
\* returns None), or the read fails and the error is returned to the handler
HandlerNextNoData ==
    /\ pc = "Dispatching"
    /\ UNCHANGED vars

\* the request handler returns its response; handle_with derives the
\* keep-alive headers and calls drain()
HandlerReturn ==
    /\ pc = "Dispatching"
    /\ \E r \in HandlerResponses :
          /\ res' = DeriveConnection(r, req, keep_alive_timeout, keep_alive_max)
          /\ iter' = [iter EXCEPT !.returned = TRUE, !.given = r]
    /\ pc' = "Draining"
    /\ UNCHANGED <<peer, pos, out, config, lib, handled_req_count, rx, req, remaining, prev>>

\* BodyReader::drain: one read of the loop; a read of 0 bytes ends the loop
DrainRead ==
    /\ pc = "Draining"
    /\ DrainContinues(remaining)
    /\ \E read \in ReadResults(wire, pos, peer_closes, ToRead(remaining)) :
          IF read = 0
          THEN /\ pc' = "Responding"
               /\ iter' = [iter EXCEPT !.drained = TRUE]
               /\ UNCHANGED <<pos, remaining>>
          ELSE /\ pos' = pos + read
               /\ remaining' = remaining - read
               /\ UNCHANGED <<pc, iter>>
    /\ UNCHANGED <<peer, out, config, lib, handled_req_count, rx, req, res, prev>>

\* BodyReader::drain returns Ok with nothing left to read; handle_with
\* takes the channel back and goes on to send the response
DrainDone ==
    /\ pc = "Draining"
    /\ ~DrainContinues(remaining)
    /\ pc' = "Responding"
    /\ iter' = [iter EXCEPT !.drained = TRUE]
    /\ UNCHANGED <<peer, pos, out, config, lib, handled_req_count, rx, req, remaining, res, prev>>

\* DrainError with the loop continued instead of left
DrainErrorContinues ==
    /\ pc = "Draining"
    /\ DrainContinues(remaining)
    /\ handled_req_count < MaxIterations
    /\ pc' = "AwaitingRequest"
    /\ handled_req_count' = handled_req_count + 1
    /\ prev' = Summary(iter)
    /\ iter' = NewIter
    /\ req' = NoRequest
    /\ res' = NoResponse
    /\ UNCHANGED <<peer, pos, out, config, lib, rx, remaining>>

\* DrainError with the response sent all the same
DrainErrorSendsResponse ==
    /\ pc = "Draining"
    /\ DrainContinues(remaining)
    /\ pc' = "Responding"
    /\ UNCHANGED <<peer, pos, out, config, lib, handled_req_count, rx, req, remaining, res, iter, prev>>

\* BodyReader::drain: a read fails; handle_with breaks out of the loop
DrainError ==
    /\ pc = "Draining"
    /\ DrainContinues(remaining)
    /\ pc' = "Closed"
    /\ UNCHANGED <<peer, pos, out, config, lib, handled_req_count, rx, req, remaining, res, iter, prev>>

\* Response::send: the head and the body are handed to the writer
SendWrite ==
    /\ pc = "Responding"
    /\ ~iter.wrote
    /\ out' = out + 1
    /\ iter' = [iter EXCEPT !.wrote = TRUE, !.sent = ConnectionHeaders(res)]
    /\ UNCHANGED <<peer, pos, config, lib, handled_req_count, pc, rx, req, remaining, res, prev>>

\* Response::send: the writer is flushed and send returns Ok; handle_with
\* decides to close or to loop, incrementing the counter for the next receive
SendFlush ==
    /\ pc = "Responding"
    /\ iter.wrote
    /\ IF ShouldClose(res, handled_req_count, keep_alive_max)
       THEN /\ pc' = "Closed"
            /\ iter' = [iter EXCEPT !.flushed = TRUE]
            /\ UNCHANGED <<handled_req_count, prev, req, res>>
       ELSE /\ handled_req_count < MaxIterations
            /\ pc' = "AwaitingRequest"
            /\ handled_req_count' = handled_req_count + 1
            /\ prev' = Summary([iter EXCEPT !.flushed = TRUE])
            /\ iter' = NewIter
            /\ req' = NoRequest
            /\ res' = NoResponse
    /\ UNCHANGED <<peer, pos, out, config, lib, rx, remaining>>

\* SendError with the loop continued instead of left
SendErrorContinues ==
    /\ pc = "Responding"
    /\ handled_req_count < MaxIterations
    /\ pc' = "AwaitingRequest"
    /\ handled_req_count' = handled_req_count + 1
    /\ prev' = Summary(iter)
    /\ iter' = NewIter
    /\ req' = NoRequest
    /\ res' = NoResponse
    /\ UNCHANGED <<peer, pos, out, config, lib, rx, remaining>>

\* Response::send: a write or the flush fails; handle_with breaks out of the loop
SendError ==
    /\ pc = "Responding"
    /\ pc' = "Closed"
    /\ UNCHANGED <<peer, pos, out, config, lib, handled_req_count, rx, req, remaining, res, iter, prev>>

Next ==
    \/ HandleWith
    \/ ReceiveRequestLine
    \/ ReceiveHeaderLine
    \/ ReceiveTimeout
    \/ ReceiveReadError
    \/ HandlerNext
    \/ HandlerNextNoData
    \/ HandlerReturn
    \/ DrainRead
    \/ DrainDone
    \/ DrainError
    \/ SendWrite
    \/ SendFlush
    \/ SendError

Spec == Init /\ [][Next]_vars

(***************************************************************************)
(* One receive and the reads of the request handler, for a wider choice of *)
(* request lines, header blocks and bodies on a default connection.        *)
(***************************************************************************)
S_Get == <<"G", "e", "t">>
S_Sep == <<":", " ">>
S_Crlf == <<"\r", "\n">>
S_Space == <<" ">>

\* the texts of at most n characters over the characters of `alphabet`
RECURSIVE TextsUpTo(_, _)
TextsUpTo(alphabet, n) ==
    IF n = 0 THEN {<<>>}
    ELSE LET shorter == TextsUpTo(alphabet, n - 1)
         IN  shorter \cup {Append(t, c) : t \in shorter, c \in alphabet}

\* the sequences of at most n elements of the set `lines`, concatenated
RECURSIVE BlocksUpTo(_, _)
BlocksUpTo(lines, n) ==
    IF n = 0 THEN {<<>>}
    ELSE LET shorter == BlocksUpTo(lines, n - 1)
         IN  shorter \cup {b \o l : b \in shorter, l \in lines}

Methods == {<<"G">>, <<"g">>, S_Get}
Targets == TextsUpTo({"/", "a", "?"}, MaxTarget) \ {<<>>}

RequestLineOf(method, target) == method \o S_Space \o target \o S_Space \o S_HTTP11 \o S_Crlf
HeaderLineOf(name, value) == name \o S_Sep \o value \o S_Crlf
BodyOf(n) == [i \in 1..n |-> "x"]

\* request lines that are not accepted, and one with a fourth token
OddRequestLines ==
    { S_Crlf, <<"\n">>, <<" ", "\r", "\n">>, L_OneToken, <<"G", " ", "/", "\r", "\n">>,
      L_BadVersion,
      <<"G", " ", "/", " ", "h", "t", "t", "p", "/", "1", ".", "1", "\r", "\n">>,
      <<"G", " ", "/", " ", "x", " ", "y", "\r", "\n">>,
      <<"G", " ", "/", " ", "H", "T", "T", "P", "/", "1", ".", "1", " ", "y", "\r", "\n">>,
      L_Partial }

\* header lines, well-formed and not
HeaderLines ==
    { L_ConnOther, L_NoColon, L_Len2, L_LenBad,
      <<"N", ":", "v", "\r", "\n">>,
      <<"a", "\n">>,
      HeaderLineOf(S_content_length, <<"1">>),
      HeaderLineOf(S_ContentLength, <<"-", "1">>),
      HeaderLineOf(S_ContentLength, <<"+", "1">>),
      HeaderLineOf(S_ContentLength, <<>>) }

\* the ends of a header block: the empty line, nothing, or a line cut short
BlockEnds == {S_Crlf, <<"\n">>, <<>>, <<"N", ":", " ">>}

\* declared lengths and the body bytes sent for them, with one byte more
\* where a pipelined request follows
BodyCases ==
    {<<n, p>> : n \in 0..2, p \in 0..3} \cup
    {<<ChunkCap + 1, p>> : p \in {ChunkCap, ChunkCap + 1, ChunkCap + 2}}

ReceiveWires ==
    {RequestLineOf(m, t) \o S_Crlf : m \in Methods, t \in Targets}
    \cup {l \o L_ConnOther \o S_Crlf : l \in OddRequestLines}
    \cup {L_RequestLine \o b \o e : b \in BlocksUpTo(HeaderLines, MaxHeaderLines), e \in BlockEnds}
    \cup {L_RequestLine \o HeaderLineOf(S_ContentLength, Dec(c[1])) \o S_Crlf \o BodyOf(c[2]) :
             c \in BodyCases}
    \cup {L_RequestLine \o S_Crlf \o BodyOf(p) : p \in 0..1}

ReceiveInit ==
    /\ wire \in ReceiveWires
    /\ peer_closes \in BOOLEAN
    /\ pos = 0
    /\ out = 0
    /\ keep_alive_timeout = ConnectionNew.keep_alive_timeout
    /\ keep_alive_max = ConnectionNew.keep_alive_max
    /\ events_handler = ConnectionNew.events_handler
    /\ handled_req_count = 0
    /\ pc = "Created"
    /\ rx = RxLine
    /\ req = NoRequest
    /\ remaining = 0
    /\ res = NoResponse
    /\ iter = NewIter
    /\ prev = Summary(NewIter)
    /\ LibIdle
    /\ ConcIdle

ReceiveNext ==
    \/ HandleWith
    \/ ReceiveRequestLine
    \/ ReceiveHeaderLine
    \/ HandlerNext
    \/ HandlerNextNoData

ReceiveSpec == ReceiveInit /\ [][ReceiveNext]_vars

(***************************************************************************)
(* Properties of the keep-alive loop.                                      *)
(***************************************************************************)
\* the header names and values as they appear in a header table
LowerConnection == <<"c", "o", "n", "n", "e", "c", "t", "i", "o", "n">>
LowerKeepAlive == <<"k", "e", "e", "p", "-", "a", "l", "i", "v", "e">>

\* the receive errors that are answered with a response
AnsweredKinds == {"Read", "InvalidRequestLine", "UnsupportedHttpVersion", "InvalidHeader", "InvalidContentLength"}

\* the receive errors that come from parsing what was read
ParseErrorKinds == {"InvalidRequestLine", "UnsupportedHttpVersion", "InvalidHeader", "InvalidContentLength"}

\* the engine is at the start of a receive that follows an earlier iteration
AtNextReceive == pc = "AwaitingRequest" /\ rx.phase = "line" /\ iter.first_len = -1 /\ handled_req_count > 1

\* the transitions of the state line of the design
LineTransitions ==
    { <<"AwaitingRequest", "Dispatching">>, <<"Dispatching", "Draining">>,
      <<"Draining", "Responding">>, <<"Responding", "AwaitingRequest">>,
      <<"Responding", "Closed">> }

\* the transitions that skip dispatch and drain, or end the loop early
EarlyTransitions ==
    { <<"AwaitingRequest", "Responding">>, <<"AwaitingRequest", "Closed">>,
      <<"Draining", "Closed">> }

\* a step of handle_with keeps the order of one iteration: a new receive
\* starts only from Responding, with the response written and flushed and,
\* for a request that was received, the handler returned and the body drained
Sequential(transitions) ==
    /\ (pc # "Created" /\ pc' # pc) => <<pc, pc'>> \in transitions
    /\ (pc # "Created" /\ handled_req_count' # handled_req_count) =>
          /\ pc = "Responding" /\ pc' = "AwaitingRequest"
          /\ handled_req_count' = handled_req_count + 1
          /\ prev'.wrote /\ prev'.flushed
          /\ prev'.outcome = "Ok" => (prev'.returned /\ prev'.drained)
    /\ (pc' = "AwaitingRequest" /\ pc # "AwaitingRequest") =>
          handled_req_count' = handled_req_count + 1

\* C1, as stated: requests are processed strictly sequentially and the only
\* transitions are AwaitingRequest -> Dispatching -> Draining -> Responding ->
\* (AwaitingRequest | Closed).
C1_OnlyLineTransitions == [][Sequential(LineTransitions)]_vars

\* C1, amended: requests are processed strictly sequentially (a receive
\* starts only after the previous response was written and flushed and, if a
\* request was received, after its handler returned and its body was
\* drained); the transitions are those of the state line and, besides,
\* AwaitingRequest -> Responding (timeout or receive error: dispatch and
\* drain are skipped), AwaitingRequest -> Closed (peer closed) and
\* Draining -> Closed (drain failed).
C1_Sequential == [][Sequential(LineTransitions \cup EarlyTransitions)]_vars

\* a second receive has started after a request whose body was drained
C1_Witness ==
    /\ AtNextReceive
    /\ prev.outcome = "Ok" /\ prev.declared = 2 /\ prev.taken = 0
    /\ prev.returned /\ prev.drained /\ prev.flushed

\* C2: when the engine starts the receive after a request with declared
\* Content-Length N whose N body bytes the peer has sent, exactly N bytes
\* have been taken from the channel since the end of the header block,
\* whatever part of the body the handler read.
C2_BodyFullyTaken ==
    (AtNextReceive /\ prev.outcome = "Ok" /\ prev.body_start + prev.declared <= Len(wire))
        => pos = prev.body_start + prev.declared

\* the handler read one of two declared bytes and the next receive starts
\* right after the second
C2_Witness ==
    /\ AtNextReceive
    /\ prev.outcome = "Ok" /\ prev.declared = 2 /\ prev.taken = 1
    /\ pos = prev.body_start + 2
    /\ pos < Len(wire)

\* the request of this iteration asks for the connection to be closed
RequestAsksClose ==
    /\ LowerConnection \in DOMAIN req.headers
    /\ LET v == req.headers[LowerConnection][1]
       IN  /\ Len(v) = 5
           /\ v[1] \in {"c", "C"} /\ v[2] \in {"l", "L"} /\ v[3] \in {"o", "O"}
           /\ v[4] \in {"s", "S"} /\ v[5] \in {"e", "E"}

\* C3: with a configured maximum M >= 1 the counter of receive attempts never
\* exceeds M; the response to the M-th request, when the handler set no
\* Connection header and the request does not ask for close, carries
\* Connection: keep-alive and a Keep-Alive header; and once it is sent the
\* loop is closed.
C3_MaxRequests ==
    keep_alive_max >= 1 =>
        /\ handled_req_count <= keep_alive_max
        /\ (/\ handled_req_count = keep_alive_max
            /\ iter.outcome = "Ok" /\ iter.returned
            /\ LowerConnection \notin DOMAIN iter.given.headers
            /\ ~RequestAsksClose)
              => /\ LowerConnection \in DOMAIN res.headers
                 /\ res.headers[LowerConnection] = <<S_keep_alive>>
                 /\ LowerKeepAlive \in DOMAIN res.headers
        /\ (handled_req_count = keep_alive_max /\ iter.flushed) => pc = "Closed"

\* the second of at most two requests was answered with keep-alive headers
\* and the loop closed
C3_Witness ==
    /\ keep_alive_max = 2 /\ handled_req_count = 2
    /\ iter.outcome = "Ok" /\ iter.flushed /\ pc = "Closed"
    /\ iter.sent.connection = Some(S_keep_alive)
    /\ iter.sent.keep_alive # None

\* the Keep-Alive value for the configuration of the connection
ExpectedKeepAlive ==
    IF keep_alive_timeout = 5 /\ keep_alive_max = 200
    THEN <<"t", "i", "m", "e", "o", "u", "t", "=", "5", ",", " ", "m", "a", "x", "=", "2", "0", "0">>
    ELSE <<"t", "i", "m", "e", "o", "u", "t", "=">> \o Dec(keep_alive_timeout)
            \o <<",", " ", "m", "a", "x", "=">> \o Dec(keep_alive_max)

\* the values of a header in a table, the empty list if it is not there
ValuesOf(headers, name) == IF name \in DOMAIN headers THEN headers[name] ELSE <<>>

\* C4: once the handler has returned, a response it gave no Connection
\* header has Connection: close and no Keep-Alive if the request's Connection
\* header is close in any case, and else Connection: keep-alive and
\* Keep-Alive: timeout=<t>, max=<m> with the configured values; a response it
\* gave a Connection header keeps its Connection and Keep-Alive as given.
C4_Derivation ==
    (iter.outcome = "Ok" /\ iter.returned) =>
        IF LowerConnection \in DOMAIN iter.given.headers
        THEN /\ ValuesOf(res.headers, LowerConnection) = ValuesOf(iter.given.headers, LowerConnection)
             /\ ValuesOf(res.headers, LowerKeepAlive) = ValuesOf(iter.given.headers, LowerKeepAlive)
        ELSE IF RequestAsksClose
        THEN /\ ValuesOf(res.headers, LowerConnection) = <<S_close>>
             /\ ValuesOf(res.headers, LowerKeepAlive) = <<>>
        ELSE /\ ValuesOf(res.headers, LowerConnection) = <<S_keep_alive>>
             /\ ValuesOf(res.headers, LowerKeepAlive) = <<ExpectedKeepAlive>>

\* a request with "Connection: Close" whose handler set only Keep-Alive has
\* got Connection: close and lost the Keep-Alive
C4_Witness ==
    /\ pc = "Draining"
    /\ RequestAsksClose /\ req.headers[LowerConnection][1] # S_close
    /\ LowerKeepAlive \in DOMAIN iter.given.headers
    /\ LowerConnection \notin DOMAIN iter.given.headers
    /\ ValuesOf(res.headers, LowerKeepAlive) = <<>>

\* C5: a response that is sent with Connection: close carries no Keep-Alive
\* header, and no receive follows it.
C5_CloseEndsLoop ==
    /\ (iter.wrote /\ iter.sent.connection = Some(S_close)) => iter.sent.keep_alive = None
    /\ AtNextReceive => prev.sent.connection # Some(S_close)

\* C6: a parse error is answered without dispatch and drain by one response
\* with Connection: close, whatever the client-error handler built, and no
\* receive follows it.
C6_ErrorEndsLoop ==
    /\ iter.outcome \in ParseErrorKinds =>
          /\ "handle" \notin iter.invoked /\ ~iter.returned /\ ~iter.drained
          /\ ValuesOf(res.headers, LowerConnection) = <<S_close>>
          /\ pc \in {"Responding", "Closed"}
    /\ AtNextReceive => prev.outcome \notin ParseErrorKinds

\* C7: the status passed to the client-error handler is 400 for
\* InvalidHeader and InvalidContentLength, 505 for UnsupportedHttpVersion and
\* 500 for InvalidRequestLine and Read; ConnectionClosed reaches no handler.
C7_StatusMapping ==
    /\ "handle_client_error" \in iter.invoked =>
          /\ iter.outcome \in AnsweredKinds
          /\ iter.status = CASE iter.outcome \in {"InvalidHeader", "InvalidContentLength"} -> 400
                             [] iter.outcome = "UnsupportedHttpVersion" -> 505
                             [] OTHER -> 500
          /\ events_handler = "default" => res.status = iter.status
    /\ iter.outcome \in AnsweredKinds => "handle_client_error" \in iter.invoked
    /\ iter.outcome = "ConnectionClosed" => (iter.invoked = {} /\ iter.status = 0)

\* an unparsable Content-Length was given status 400
C7_Witness ==
    /\ iter.outcome = "InvalidContentLength" /\ iter.status = 400
    /\ "handle_client_error" \in iter.invoked
    /\ pc = "Responding"

\* C8: a timed-out receive is answered by the timeout handler's response (by
\* default 408 with Connection: close and no Keep-Alive) without dispatch and
\* drain, and no receive follows it, whatever the timeout handler returned.
C8_TimeoutEndsLoop ==
    /\ iter.outcome = "Timeout" =>
          /\ iter.invoked = {"handle_timeout"} /\ ~iter.returned /\ ~iter.drained
          /\ res = iter.given
          /\ events_handler = "default" =>
                /\ res.status = 408
                /\ ValuesOf(res.headers, LowerConnection) = <<S_close>>
                /\ ValuesOf(res.headers, LowerKeepAlive) = <<>>
          /\ pc \in {"Responding", "Closed"}
    /\ AtNextReceive => prev.outcome # "Timeout"

\* C9: when the first line read of an iteration has zero bytes, the receive
\* ends with ConnectionClosed and the loop is left with no handler called
\* and nothing written in that iteration.
C9_PeerClosed ==
    /\ iter.first_len = 0 => iter.outcome = "ConnectionClosed"
    /\ iter.outcome = "ConnectionClosed" =>
          /\ iter.first_len = 0
          /\ pc = "Closed"
          /\ iter.invoked = {} /\ ~iter.wrote /\ res = NoResponse

\* the peer closed after one request was served
C9_Witness ==
    /\ iter.first_len = 0 /\ iter.outcome = "ConnectionClosed"
    /\ handled_req_count = 2 /\ prev.outcome = "Ok" /\ out = 1
    /\ pc = "Closed"

\* C10: after a read failure during a receive nothing is written to the
\* channel in that iteration, and no receive follows it.
C10_ReadErrorIsSilent ==
    /\ iter.outcome = "Read" => ~iter.wrote
    /\ AtNextReceive => prev.outcome # "Read"

(***************************************************************************)
(* Properties of the body reader and of the parser.                        *)
(***************************************************************************)
\* the body bytes the peer has sent for the request of this iteration
BodySent == Len(wire) - iter.body_start

\* the smaller of two numbers
Min(a, b) == IF a < b THEN a ELSE b

\* what holds of the chunks of BodyReader::next while the handler runs
ChunksWithinBudget ==
    pc = "Dispatching" =>
        /\ iter.taken <= Min(iter.declared, BodySent)
        /\ pos = iter.body_start + iter.taken
        /\ remaining = 0 => iter.taken = Min(iter.declared, BodySent)
        /\ iter.declared = 0 => remaining = 0

\* a step of the handler: a chunk has 1 to 1024 bytes; none is returned
\* only with the counter at zero afterwards, and after none nothing is read
ChunkStep ==
    (pc = "Dispatching" /\ pc' = "Dispatching") =>
        /\ iter'.taken - iter.taken \in 0..1024
        /\ iter'.taken = iter.taken => remaining' = 0
        /\ remaining = 0 => (pos' = pos /\ iter'.taken = iter.taken /\ remaining' = 0)

\* C11: for a declared length N and P body bytes sent, the chunks of
\* successive next() calls are non-empty, at most 1024 bytes each and sum to
\* min(N, P); after none, next() returns none and reads nothing even if
\* more bytes are there; with N = 0 the first next() reads nothing.
C11_Chunks == []ChunksWithinBudget /\ [][ChunkStep]_vars

\* a body of 1025 declared bytes was read to its end in more than one chunk
\* and the byte of a pipelined request is left on the channel
C11_Witness ==
    /\ pc = "Dispatching"
    /\ iter.declared = 1025 /\ iter.taken = 1025 /\ remaining = 0
    /\ pos < Len(wire)

\* the position of the first newline of w, 0 if there is none
FirstNewline(w) == IndexOf(w, "\n")

\* the text of the first line of the wire, without its terminator
FirstLineText ==
    IF FirstNewline(wire) = 0 THEN wire ELSE SubSeq(wire, 1, FirstNewline(wire) - 1)

\* the tokens of the first line of the wire
FirstLineTokens == SplitWhitespace(FirstLineText)

\* position i of w is the newline of an empty line: a line of "\n" or "\r\n"
EndsEmptyLine(w, i) ==
    /\ i >= 2 /\ w[i] = "\n"
    /\ \/ w[i - 1] = "\n"
       \/ (i >= 3 /\ w[i - 1] = "\r" /\ w[i - 2] = "\n")

\* the position of the end of the first empty line of w, 0 if there is none
FirstEmptyLineEnd(w) ==
    IF \E i \in 1..Len(w) : EndsEmptyLine(w, i)
    THEN CHOOSE i \in 1..Len(w) : EndsEmptyLine(w, i) /\ \A j \in 1..(i - 1) : ~EndsEmptyLine(w, j)
    ELSE 0

\* the lines of a text: the pieces between its newlines, a last piece
\* without newline included, each without a "\r" at its end
RECURSIVE LinesOf(_)
LinesOf(t) ==
    IF t = <<>> THEN <<>>
    ELSE LET n == IndexOf(t, "\n")
             raw == IF n = 0 THEN t ELSE SubSeq(t, 1, n - 1)
             line == IF raw # <<>> /\ raw[Len(raw)] = "\r" THEN SubSeq(raw, 1, Len(raw) - 1) ELSE raw
         IN  <<line>> \o (IF n = 0 THEN <<>> ELSE LinesOf(SubSeq(t, n + 1, Len(t))))

\* the header lines that the receive of this iteration has read
HeaderLinesRead == Tail(LinesOf(SubSeq(wire, 1, iter.body_start)))

\* the text s holds ": "
HasColonSpace(s) == \E i \in 1..(Len(s) - 1) : s[i] = ":" /\ s[i + 1] = " "

\* C14: a Request is returned only when the header block was read through
\* an empty line, never when the peer closed before it; and the channel is
\* then positioned right after the first empty line, at the first body byte.
C14_RequestOnlyAfterBlock ==
    iter.outcome = "Ok" =>
        /\ FirstEmptyLineEnd(wire) # 0
        /\ iter.body_start = FirstEmptyLineEnd(wire)

\* C15: no Request is returned for a header block with a non-empty line
\* that does not hold the separator ": ".
C15_SeparatorIsColonSpace ==
    iter.outcome = "Ok" =>
        \A i \in 1..Len(HeaderLinesRead) :
            HeaderLinesRead[i] # <<>> => HasColonSpace(HeaderLinesRead[i])

\* C16: a first line of at least one byte with fewer than three tokens ends
\* the receive with InvalidRequestLine, one with three or more tokens whose
\* third is not HTTP/1.1 with UnsupportedHttpVersion, and in both cases
\* nothing after the first line has been read.
C16_RequestLineClassified ==
    iter.first_len > 0 =>
        /\ Len(FirstLineTokens) < 3 =>
              (iter.outcome = "InvalidRequestLine" /\ pos = iter.first_len)
        /\ (Len(FirstLineTokens) >= 3 /\ FirstLineTokens[3] # <<"H", "T", "T", "P", "/", "1", ".", "1">>) =>
              (iter.outcome = "UnsupportedHttpVersion" /\ pos = iter.first_len)
        /\ iter.outcome \in {"InvalidRequestLine", "UnsupportedHttpVersion"} =>
              (Len(FirstLineTokens) < 3 <=> iter.outcome = "InvalidRequestLine")

\* a request line "G / http/1.1" was refused for its version with the
\* header line that follows it unread
C16_Witness ==
    /\ iter.outcome = "UnsupportedHttpVersion"
    /\ Len(FirstLineTokens) = 3 /\ FirstLineTokens[3] = <<"h", "t", "t", "p", "/", "1", ".", "1">>
    /\ pos = iter.first_len /\ pos < Len(wire)

\* the header lines read so far by a receive that has not returned a request
LinesReadSoFar == Tail(LinesOf(SubSeq(wire, 1, pos)))

\* a header line whose name is Content-Length in any case
IsLengthLine(l) ==
    /\ IndexOf(l, ":") # 0
    /\ ToLowercase(Trim(SubSeq(l, 1, IndexOf(l, ":") - 1))) =
          <<"c", "o", "n", "t", "e", "n", "t", "-", "l", "e", "n", "g", "t", "h">>

\* the value of a header line
LineValue(l) == Trim(SubSeq(l, IndexOf(l, ":") + 1, Len(l)))

\* the digits of an unsigned number as str::parse::<usize> reads it: decimal
\* digits after an optional "+"
UnsignedDigits(v) == IF v # <<>> /\ v[1] = "+" THEN Tail(v) ELSE v

\* a value that is an unsigned number
IsUnsigned(v) ==
    /\ UnsignedDigits(v) # <<>>
    /\ \A i \in 1..Len(UnsignedDigits(v)) : UnsignedDigits(v)[i] \in {"0", "1", "2", "3", "4", "5", "6", "7", "8", "9"}

\* the Content-Length lines among the lines of a block, in order
LengthLines(lines) == SelectSeq(lines, IsLengthLine)

\* C17: the budget of the BodyReader and the ContentLength stored with the
\* request are the value of the last Content-Length line of the header
\* block, the budget being 0 and nothing being stored when there is none; a
\* Content-Length that is not an unsigned number ends the receive with
\* InvalidContentLength.
C17_BudgetIsContentLength ==
    /\ iter.outcome = "Ok" =>
          LET ls == LengthLines(HeaderLinesRead)
          IN  IF ls = <<>>
              THEN iter.declared = 0 /\ req.content_length = <<>>
              ELSE /\ \A i \in 1..Len(ls) : IsUnsigned(LineValue(ls[i]))
                   /\ LET digits == UnsignedDigits(LineValue(ls[Len(ls)]))
                      IN  /\ Dec(iter.declared) = digits
                          /\ req.content_length = <<iter.declared>>
    /\ (pc = "Dispatching" /\ iter.taken = 0 /\ pos < Len(wire)) => remaining = iter.declared
    /\ (iter.outcome \notin {"Pending", "Ok"} /\ LinesReadSoFar # <<>>) =>
          LET l == LinesReadSoFar[Len(LinesReadSoFar)]
          IN  (IsLengthLine(l) /\ ~IsUnsigned(LineValue(l))) <=> iter.outcome = "InvalidContentLength"

\* of the lines "Content-Length: 2" and "content-length: 1" the second gave
\* the budget
C17_Witness ==
    /\ pc = "Dispatching" /\ iter.outcome = "Ok"
    /\ Len(LengthLines(HeaderLinesRead)) = 2
    /\ LineValue(HeaderLinesRead[1]) = <<"2">>
    /\ iter.declared = 1 /\ remaining = 1

\* the request target of the first line of the wire, up to its first "?"
TargetBeforeQuery == SplitFirst(FirstLineTokens[2], "?")

\* C18: the path of a request is "/" or starts with "/" and does not end
\* with "/", and after its first "/" it is a part of the request target that
\* lies before the first "?".
C18_PathNormalized ==
    iter.outcome = "Ok" =>
        /\ req.path # <<>> /\ req.path[1] = "/"
        /\ Len(req.path) > 1 => req.path[Len(req.path)] # "/"
        /\ \A i \in 1..Len(req.path) : req.path[i] # "?"
        /\ \E i \in 1..(Len(TargetBeforeQuery) + 1) :
              /\ i + Len(req.path) - 2 <= Len(TargetBeforeQuery)
              /\ SubSeq(TargetBeforeQuery, i, i + Len(req.path) - 2) = Tail(req.path)
              /\ \A j \in 1..(i - 1) : TargetBeforeQuery[j] = "/"
              /\ \A j \in (i + Len(req.path) - 1)..Len(TargetBeforeQuery) : TargetBeforeQuery[j] = "/"

\* the target "a/?" was parsed to the path "/a"
C18_Witness ==
    /\ iter.outcome = "Ok"
    /\ FirstLineTokens[2] = <<"a", "/", "?">>
    /\ req.path = <<"/", "a">>

\* the upper-case form of a character and of a text
ToUpperChar(c) ==
    IF \E i \in 1..26 : LowerLetters[i] = c
    THEN UpperLetters[CHOOSE i \in 1..26 : LowerLetters[i] = c]
    ELSE c

ToUppercase(t) == [i \in 1..Len(t) |-> ToUpperChar(t[i])]

\* C19: the method of a parsed Request is the upper-case form of the first
\* token of the request line.
C19_MethodUppercased ==
    iter.outcome = "Ok" => req.method = ToUppercase(FirstLineTokens[1])

(***************************************************************************)
(* The header table on its own: a table built by insert, append and        *)
(* add_set_cookie, then serialized and read back line by line.             *)
(***************************************************************************)

\* the connection is not running: only the library values change
EngineIdle ==
    /\ wire = <<>>
    /\ peer_closes = FALSE
    /\ pos = 0
    /\ out = 0
    /\ keep_alive_timeout = ConnectionNew.keep_alive_timeout
    /\ keep_alive_max = ConnectionNew.keep_alive_max
    /\ events_handler = ConnectionNew.events_handler
    /\ handled_req_count = 0
    /\ pc = "Created"
    /\ rx = RxLine
    /\ req = NoRequest
    /\ remaining = 0
    /\ res = NoResponse
    /\ iter = NewIter
    /\ prev = Summary(NewIter)

engine == <<wire, peer_closes, pos, out, config, handled_req_count, pc, rx, req,
            remaining, res, iter, prev>>

HeaderNames == {<<"A">>, <<"a">>, <<"x", "-", "y">>, S_SetCookie}
HeaderValues == {<<"v">>, <<"w">>}
CookieNames == {<<"c">>}
CookieValues == {<<"1">>, <<"2">>}

\* the number of values the table holds for a name
ValueCount(h, key) == IF HeadersContainsKey(h, key) THEN Len(h[ToLowercase(key)]) ELSE 0

\* str::split(&str): the pieces of s between the occurrences of sep
RECURSIVE SplitText(_, _)
SplitText(s, sep) ==
    LET kv == SplitOnceText(s, sep)
    IN  IF kv = None THEN <<s>> ELSE <<kv[1][1]>> \o SplitText(kv[1][2], sep)

\* insert_header_line called on each line in turn, a failing line being skipped
RECURSIVE FeedLines(_, _)
FeedLines(h, lines) ==
    IF lines = <<>> THEN h
    ELSE FeedLines(HeadersInsertHeaderLine(h, lines[1]).headers, Tail(lines))

\* to_string, split on CRLF, each line given to insert_header_line on an empty table
RoundTrip(h, order) == FeedLines(HeadersNew, SplitText(HeadersToString(h, order), S_Crlf))

HeadersInit ==
    /\ EngineIdle
    /\ LibIdle
    /\ ConcIdle

InsertOp ==
    /\ \E key \in HeaderNames, value \in HeaderValues :
          table' = HeadersInsert(table, key, value)
    /\ reparsed' = None
    /\ UNCHANGED <<engine, conc, builder, written>>

AppendOp ==
    /\ \E key \in HeaderNames, value \in HeaderValues :
          /\ ValueCount(table, key) < MaxValues
          /\ table' = HeadersAppend(table, key, value)
    /\ reparsed' = None
    /\ UNCHANGED <<engine, conc, builder, written>>

AddSetCookieOp ==
    /\ ValueCount(table, S_SetCookie) < MaxValues
    /\ \E name \in CookieNames, value \in CookieValues :
          table' = HeadersAddSetCookie(table, name, value)
    /\ reparsed' = None
    /\ UNCHANGED <<engine, conc, builder, written>>

RoundTripOp ==
    /\ \E order \in KeyOrders(table) :
          reparsed' = Some(RoundTrip(table, order))
    /\ UNCHANGED <<engine, conc, builder, written, table>>

HeadersNext ==
    \/ InsertOp
    \/ AppendOp
    \/ AddSetCookieOp
    \/ RoundTripOp

HeadersSpec == HeadersInit /\ [][HeadersNext]_vars

\* C20: a table that was serialized with to_string and read back line by line
\* with insert_header_line has the same names (in lower case) and, for each
\* name, the same list of values in the same order.
C20_HeaderRoundTrip == reparsed # None => reparsed[1] = table

(***************************************************************************)
(* The response builder on its own: a chain of builder calls, ended by     *)
(* body, stream or end, taken up again by into_builder, and sent.          *)
(***************************************************************************)

S_5 == <<"5">>
S_t == <<"t">>
HeaderArgs == {<<S_ContentLength, S_5>>, <<S_TransferEncoding, S_chunked>>, <<S_ContentType, S_t>>}
BodyArgs == {<<>>, S_hi}
ChunkValues == {<<>>, BodyOf(26)}
ChunkLists == TextsUpTo(ChunkValues, MaxChunks)

ResponseInit ==
    /\ EngineIdle
    /\ LibIdle
    /\ ConcIdle

BuildOp ==
    /\ builder.stage = "none"
    /\ builder' = [stage |-> "builder", inner |-> ResponseBuild]
    /\ UNCHANGED <<engine, conc, written, table, reparsed>>

StatusOp ==
    /\ builder.stage = "builder"
    /\ \E status \in {BAD_REQUEST} :
          builder' = [builder EXCEPT !.inner = BuilderStatus(@, status)]
    /\ UNCHANGED <<engine, conc, written, table, reparsed>>

HeaderOp ==
    /\ builder.stage = "builder"
    /\ \E args \in HeaderArgs :
          builder' = [builder EXCEPT !.inner = BuilderHeader(@, args[1], args[2])]
    /\ UNCHANGED <<engine, conc, written, table, reparsed>>

CookieOp ==
    /\ builder.stage = "builder"
    /\ ValueCount(builder.inner.headers, S_SetCookie) < MaxValues
    /\ \E key \in CookieNames, value \in {<<"1">>} :
          builder' = [builder EXCEPT !.inner = BuilderCookie(@, key, value)]
    /\ UNCHANGED <<engine, conc, written, table, reparsed>>

BodyOp ==
    /\ builder.stage = "builder"
    /\ \E bytes \in BodyArgs :
          builder' = [stage |-> "response", inner |-> BuilderBody(builder.inner, bytes)]
    /\ UNCHANGED <<engine, conc, written, table, reparsed>>

StreamOp ==
    /\ builder.stage = "builder"
    /\ \E chunks \in ChunkLists, fails \in BOOLEAN :
          builder' = [stage |-> "response",
                      inner |-> BuilderStream(builder.inner, StreamBody(chunks, fails))]
    /\ UNCHANGED <<engine, conc, written, table, reparsed>>

EndOp ==
    /\ builder.stage = "builder"
    /\ builder' = [stage |-> "response", inner |-> BuilderEnd(builder.inner)]
    /\ UNCHANGED <<engine, conc, written, table, reparsed>>

IntoBuilderOp ==
    /\ builder.stage = "response"
    /\ builder' = [stage |-> "builder", inner |-> IntoBuilder(builder.inner)]
    /\ UNCHANGED <<engine, conc, written, table, reparsed>>

\* HttpResponse::send with no failing write: the body is taken out of the response
SendOp ==
    /\ builder.stage = "response"
    /\ \E order \in KeyOrders(builder.inner.headers) :
          written' = [of |-> builder.inner, bytes |-> SendPayload(builder.inner, order),
                      result |-> Some(SendResult(builder.inner))]
    /\ builder' = [stage |-> "sent", inner |-> [builder.inner EXCEPT !.body = NoBody]]
    /\ UNCHANGED <<engine, conc, table, reparsed>>

ResponseNext ==
    \/ BuildOp
    \/ StatusOp
    \/ HeaderOp
    \/ CookieOp
    \/ BodyOp
    \/ StreamOp
    \/ EndOp
    \/ IntoBuilderOp
    \/ SendOp

ResponseSpec == ResponseInit /\ [][ResponseNext]_vars

\* C13: a response that a chain of builder calls has produced never carries
\* both Content-Length and Transfer-Encoding; it carries Content-Length, equal
\* to the length of its bytes, exactly when its body is a byte buffer, and
\* Transfer-Encoding: chunked exactly when its body is a stream.
C13_Framing ==
    builder.stage = "response" =>
        LET r == builder.inner
            cl == HeadersContainsKey(r.headers, S_ContentLength)
            te == HeadersContainsKey(r.headers, S_TransferEncoding)
        IN  /\ ~(cl /\ te)
            /\ cl <=> r.body.kind = "Bytes"
            /\ cl => r.headers[ToLowercase(S_ContentLength)] = <<Dec(Len(r.body.bytes))>>
            /\ te <=> r.body.kind = "Stream"
            /\ te => r.headers[ToLowercase(S_TransferEncoding)] = <<S_chunked>>

(***************************************************************************)
(* A decoder of the chunked transfer coding, written from the coding's     *)
(* definition and not from send: size line in hexadecimal, CRLF, that      *)
(* many bytes, CRLF, ended by a chunk of size zero and an empty line.      *)
(***************************************************************************)

HexValue(c) ==
    IF \E i \in 1..16 : HexDigits[i] = c THEN (CHOOSE i \in 1..16 : HexDigits[i] = c) - 1
    ELSE IF \E i \in 1..6 : LowerLetters[i] = c THEN 9 + (CHOOSE i \in 1..6 : LowerLetters[i] = c)
    ELSE -1

RECURSIVE FromHex(_)
\* the number a text of hexadecimal digits stands for, -1 if it is not one
FromHex(t) ==
    IF t = <<>> THEN -1
    ELSE LET d == HexValue(t[Len(t)])
             front == SubSeq(t, 1, Len(t) - 1)
             high == IF front = <<>> THEN 0 ELSE FromHex(front)
         IN  IF d < 0 \/ high < 0 THEN -1 ELSE high * 16 + d

RECURSIVE DecodeChunked(_, _)
\* the data decoded so far being `data`: the decoding of the chunks at the head
\* of `bytes`, and what follows the last chunk
DecodeChunked(bytes, data) ==
    LET line == SplitOnceText(bytes, S_Crlf)
        size == IF line = None THEN -1 ELSE FromHex(line[1][1])
        after == line[1][2]
    IN  IF size < 0 THEN [ok |-> FALSE, data |-> data, rest |-> bytes]
        ELSE IF size = 0
             THEN IF Len(after) >= 2 /\ SubSeq(after, 1, 2) = S_Crlf
                  THEN [ok |-> TRUE, data |-> data, rest |-> SubSeq(after, 3, Len(after))]
                  ELSE [ok |-> FALSE, data |-> data, rest |-> after]
        ELSE IF Len(after) >= size + 2 /\ SubSeq(after, size + 1, size + 2) = S_Crlf
             THEN DecodeChunked(SubSeq(after, size + 3, Len(after)), data \o SubSeq(after, 1, size))
        ELSE [ok |-> FALSE, data |-> data, rest |-> after]

RECURSIVE Concat(_)
Concat(chunks) == IF chunks = <<>> THEN <<>> ELSE chunks[1] \o Concat(Tail(chunks))

S_Terminator == <<"0", "\r", "\n", "\r", "\n">>

\* the number of places at which `part` occurs in `text`
Occurrences(text, part) ==
    Cardinality({i \in 1..Len(text) :
        i + Len(part) - 1 <= Len(text) /\ SubSeq(text, i, i + Len(part) - 1) = part})

\* what send wrote after the first empty line, None if it wrote no empty line
WrittenBody ==
    LET parts == SplitOnceText(written.bytes, S_Crlf \o S_Crlf)
    IN  IF parts = None THEN None ELSE Some(parts[1][2])

\* C12: what send writes for a response built with stream() is a head followed
\* by a chunked body that decodes to the concatenation of the chunks the stream
\* yielded, with nothing after the last chunk, and the terminating 0 CRLF CRLF
\* occurs once in it, at its end.
C12_ChunkedRoundTrip ==
    (builder.stage = "sent" /\ written.of.body.kind = "Stream" /\ ~written.of.body.fails) =>
        /\ written.result[1].ok
        /\ WrittenBody # None
        /\ LET decoded == DecodeChunked(WrittenBody[1], <<>>)
           IN  /\ decoded.ok
               /\ decoded.data = Concat(written.of.body.chunks)
               /\ decoded.rest = <<>>
        /\ Occurrences(WrittenBody[1], S_Terminator) = 1

(***************************************************************************)
(* Properties of the header table of a received request.                   *)
(***************************************************************************)
\* the header lines read that hold a colon: those that name a header
NamedLinesRead == SelectSeq(HeaderLinesRead, LAMBDA l : IndexOf(l, ":") # 0)

\* the name of a header line, in lower case
LineName(l) == ToLowercase(Trim(SubSeq(l, 1, IndexOf(l, ":") - 1)))

\* the values of the lines of a block that carry the name, in order
RECURSIVE ValuesNamed(_, _)
ValuesNamed(lines, name) ==
    IF lines = <<>> THEN <<>>
    ELSE (IF LineName(lines[1]) = name THEN <<LineValue(lines[1])>> ELSE <<>>)
            \o ValuesNamed(Tail(lines), name)

\* C30: the header table of a returned request holds, for each name, one
\* value for each header line received with that name in any case, in the
\* order of arrival and with the value received, Content-Length included.
C30_OneValuePerLine ==
    iter.outcome = "Ok" =>
        LET names == {LineName(NamedLinesRead[i]) : i \in 1..Len(NamedLinesRead)}
        IN  /\ DOMAIN req.headers = names
            /\ \A n \in names : req.headers[n] = ValuesNamed(NamedLinesRead, n)

(***************************************************************************)
(* Properties of the failures of drain and of send.                        *)
(***************************************************************************)
\* the loop was left because draining the body failed
DrainFailed == pc = "Closed" /\ iter.returned /\ ~iter.drained

\* a step in which drain() returns an error
DrainFails == pc = "Draining" /\ pc' # "Draining" /\ ~iter'.drained

\* C25: when draining the unread body fails, handle_with leaves the loop:
\* the response of the request handler is never handed to the writer, the
\* channel is not read again and no step of the connection follows; a
\* response to a received request is written only after drain() returned Ok.
C25_DrainFailureIsFatal ==
    /\ []((iter.wrote /\ iter.outcome = "Ok") => iter.drained)
    /\ [](DrainFailed => ~iter.wrote)
    /\ [][DrainFails => (pc' = "Closed" /\ out' = out /\ pos' = pos)]_vars
    /\ [][~DrainFailed]_vars

\* drain failed with body bytes unread, for a response that asked to keep
\* the connection alive, below the maximum and with bytes left on the channel
C25_Witness ==
    /\ DrainFailed
    /\ remaining > 0 /\ pos < Len(wire)
    /\ HeadersContainsKey(res.headers, S_KeepAlive)
    /\ handled_req_count < keep_alive_max
    /\ out = handled_req_count - 1

\* the loop was left because send() returned an error
SendFailed ==
    /\ pc = "Closed" /\ ~iter.flushed
    /\ iter.outcome # "ConnectionClosed"
    /\ ~DrainFailed

\* a step in which send() returns Ok: the loop is left or goes on
SendReturnsOk ==
    \/ pc' = "Closed" /\ iter'.flushed
    \/ pc' = "AwaitingRequest" /\ prev' = Summary([iter EXCEPT !.flushed = TRUE])

\* a step in which send() returns an error
SendFails == pc = "Responding" /\ pc' # "Responding" /\ ~SendReturnsOk

\* C26: when send() fails, handle_with leaves the loop at once, whatever the
\* headers of the response and the request counter: nothing more is handed
\* to the writer, the channel is not read again and no step follows; a
\* receive after the first starts only after a send that returned Ok.
C26_SendFailureIsFatal ==
    /\ []((pc = "AwaitingRequest" /\ handled_req_count > 1) => (prev.wrote /\ prev.flushed))
    /\ [][SendFails => (pc' = "Closed" /\ out' = out /\ pos' = pos)]_vars
    /\ [][~SendFailed]_vars

\* the flush of a response with a Keep-Alive header failed below the
\* maximum, with a pipelined request left unread on the channel
C26_Witness ==
    /\ SendFailed /\ iter.wrote
    /\ HeadersContainsKey(res.headers, S_KeepAlive)
    /\ handled_req_count < keep_alive_max
    /\ pos < Len(wire)

\* the number of zero-length chunks of a list
EmptyChunks(chunks) == Cardinality({i \in 1..Len(chunks) : chunks[i] = <<>>})

\* C27: when the stream yields an error after k-1 chunks, send returns an
\* error; what it has handed to the writer is the head and those k-1 chunks
\* in chunked form, with no chunk after them and no terminating 0 CRLF CRLF
\* (the form of a zero-length chunk aside), and nothing of it is taken back.
C27_StreamErrorAborts ==
    (builder.stage = "sent" /\ written.of.body.kind = "Stream" /\ written.of.body.fails) =>
        /\ ~written.result[1].ok
        /\ SubSeq(written.bytes, 1, 9) = <<"H", "T", "T", "P", "/", "1", ".", "1", " ">>
        /\ WrittenBody # None
        /\ written.of.body.chunks = <<>> => WrittenBody[1] = <<>>
        /\ Occurrences(WrittenBody[1], S_Terminator) = EmptyChunks(written.of.body.chunks)
        /\ EmptyChunks(written.of.body.chunks) = 0 =>
              LET decoded == DecodeChunked(WrittenBody[1], <<>>)
              IN  /\ ~decoded.ok
                  /\ decoded.data = Concat(written.of.body.chunks)
                  /\ decoded.rest = <<>>

\* a stream failed at its third item, after two chunks of 26 bytes
C27_Witness ==
    /\ builder.stage = "sent" /\ written.of.body.kind = "Stream" /\ written.of.body.fails
    /\ written.of.body.chunks = <<BodyOf(26), BodyOf(26)>>
    /\ ~written.result[1].ok
    /\ Len(WrittenBody[1]) = 64

(***************************************************************************)
(* A BodyReader on its own, shared by the tasks of a request handler that  *)
(* hold a reference to it and call next, read_all and drain on it.         *)
(***************************************************************************)
Holders == 1..MaxHolders

\* a task that is not in a call; `ret` is what its last call returned
IdleTask == [op |-> "idle", at |-> "none", got |-> <<>>, ret |-> None]

\* the return of a call: the operation, Ok or Err, and for Ok the chunks of
\* body bytes returned, each as <<first, last>> position on the channel
Ret(op, ok, chunks) == Some([op |-> op, ok |-> ok, chunks |-> chunks])

\* declared lengths and the bytes the peer sends after the header block
BodyPairs == {<<n, p>> : n \in 0..MaxBody, p \in 0..(MaxBody + 1)}

\* BodyReader::new(c_len, io), with the channel at the first body byte
BodyInit ==
    /\ \E c \in BodyPairs :
          /\ wire = BodyOf(c[2])
          /\ remaining = c[1]
          /\ iter = [NewIter EXCEPT !.declared = c[1]]
    /\ peer_closes \in BOOLEAN
    /\ pos = 0
    /\ out = 0
    /\ keep_alive_timeout = ConnectionNew.keep_alive_timeout
    /\ keep_alive_max = ConnectionNew.keep_alive_max
    /\ events_handler = ConnectionNew.events_handler
    /\ handled_req_count = 0
    /\ pc = "Created"
    /\ rx = RxLine
    /\ req = NoRequest
    /\ res = NoResponse
    /\ prev = Summary(NewIter)
    /\ LibIdle
    /\ lock = 0
    /\ task = [t \in Holders |-> IdleTask]
    /\ server = NoServer

\* what a step of the BodyReader leaves alone
body_rest == <<wire, peer_closes, out, config, handled_req_count, pc, rx, req, res, iter, prev,
               builder, written, table, reparsed, server>>

\* a holder calls next, read_all or drain; each starts by awaiting the lock
\* (read_all through the next it calls)
BodyCall(t) ==
    /\ task[t].op = "idle"
    /\ \E op \in {"next", "read_all", "drain"} :
          task' = [task EXCEPT ![t] = [op |-> op, at |-> "lock", got |-> <<>>, ret |-> None]]
    /\ UNCHANGED <<body_rest, pos, remaining, lock>>

\* self.0.lock().await completes
BodyLock(t) ==
    /\ task[t].at = "lock"
    /\ lock = 0
    /\ lock' = t
    /\ task' = [task EXCEPT ![t].at = "held"]
    /\ UNCHANGED <<body_rest, pos, remaining>>

\* the task after a next() that returned none: next returns, read_all
\* returns what it has collected
AfterNone(t) ==
    [IdleTask EXCEPT !.ret = Ret(task[t].op, TRUE, task[t].got)]

\* the task after a next() that returned a chunk: next returns it,
\* read_all keeps it and calls next again
AfterChunk(t, chunk) ==
    IF task[t].op = "next" THEN [IdleTask EXCEPT !.ret = Ret("next", TRUE, <<chunk>>)]
    ELSE [task[t] EXCEPT !.at = "lock", !.got = Append(@, chunk)]

\* BodyReader::next with the counter at 0: none, without a read
BodyNextNone(t) ==
    /\ task[t].op \in {"next", "read_all"} /\ task[t].at = "held"
    /\ remaining = 0
    /\ lock' = 0
    /\ task' = [task EXCEPT ![t] = AfterNone(t)]
    /\ UNCHANGED <<body_rest, pos, remaining>>

\* BodyReader::next: the read returns; the guard is dropped at the return
BodyNextRead(t) ==
    /\ task[t].op \in {"next", "read_all"} /\ task[t].at = "held"
    /\ remaining # 0
    /\ \E read \in ReadResults(wire, pos, peer_closes, ToRead(remaining)) :
          /\ pos' = pos + read
          /\ remaining' = NextRemaining(remaining, read)
          /\ task' = [task EXCEPT ![t] = IF read = 0 THEN AfterNone(t)
                                         ELSE AfterChunk(t, <<pos + 1, pos + read>>)]
    /\ lock' = 0
    /\ UNCHANGED body_rest

\* BodyReader::next: the read fails; next, and read_all with it, return the error
BodyNextError(t) ==
    /\ task[t].op \in {"next", "read_all"} /\ task[t].at = "held"
    /\ remaining # 0
    /\ lock' = 0
    /\ task' = [task EXCEPT ![t] = [IdleTask EXCEPT !.ret = Ret(task[t].op, FALSE, <<>>)]]
    /\ UNCHANGED <<body_rest, pos, remaining>>

\* BodyDrainDone with a read made before the test of the counter
BodyDrainReadsFirst(t) ==
    /\ task[t].op = "drain" /\ task[t].at = "held"
    /\ ~DrainContinues(remaining)
    /\ \E read \in ReadResults(wire, pos, peer_closes, ChunkCap) : pos' = pos + read
    /\ lock' = 0
    /\ task' = [task EXCEPT ![t] = [IdleTask EXCEPT !.ret = Ret("drain", TRUE, <<>>)]]
    /\ UNCHANGED <<body_rest, remaining>>

\* BodyReader::drain: the counter is 0 at the head of the loop; Ok is returned
BodyDrainDone(t) ==
    /\ task[t].op = "drain" /\ task[t].at = "held"
    /\ ~DrainContinues(remaining)
    /\ lock' = 0
    /\ task' = [task EXCEPT ![t] = [IdleTask EXCEPT !.ret = Ret("drain", TRUE, <<>>)]]
    /\ UNCHANGED <<body_rest, pos, remaining>>

\* BodyReader::drain: one read of the loop, the guard being kept; a read of
\* 0 bytes ends the loop and Ok is returned
BodyDrainRead(t) ==
    /\ task[t].op = "drain" /\ task[t].at = "held"
    /\ DrainContinues(remaining)
    /\ \E read \in ReadResults(wire, pos, peer_closes, ToRead(remaining)) :
          IF read = 0
          THEN /\ lock' = 0
               /\ task' = [task EXCEPT ![t] = [IdleTask EXCEPT !.ret = Ret("drain", TRUE, <<>>)]]
               /\ UNCHANGED <<pos, remaining>>
          ELSE /\ pos' = pos + read
               /\ remaining' = remaining - read
               /\ UNCHANGED <<lock, task>>
    /\ UNCHANGED body_rest

\* BodyReader::drain: a read fails and the error is returned
BodyDrainError(t) ==
    /\ task[t].op = "drain" /\ task[t].at = "held"
    /\ DrainContinues(remaining)
    /\ lock' = 0
    /\ task' = [task EXCEPT ![t] = [IdleTask EXCEPT !.ret = Ret("drain", FALSE, <<>>)]]
    /\ UNCHANGED <<body_rest, pos, remaining>>

BodyNext ==
    \E t \in Holders :
        \/ BodyCall(t)
        \/ BodyLock(t)
        \/ BodyNextNone(t)
        \/ BodyNextRead(t)
        \/ BodyNextError(t)
        \/ BodyDrainDone(t)
        \/ BodyDrainRead(t)
        \/ BodyDrainError(t)

BodySpec == BodyInit /\ [][BodyNext]_vars

(***************************************************************************)
(* Properties of a shared BodyReader.                                      *)
(***************************************************************************)
\* C28: the counter of a BodyReader stays between 0 and the declared length
\* and the bytes taken from the channel never exceed the declared length; no
\* step of next, read_all or drain increases the counter, a read takes at
\* most min(1024, counter) bytes, and with the counter at 0 nothing is read.
C28_CounterBounded ==
    /\ [](remaining \in 0..iter.declared /\ pos + remaining <= iter.declared)
    /\ [][/\ remaining' <= remaining
          /\ pos' >= pos
          /\ pos' - pos <= Min(ChunkCap, remaining)]_vars

\* of 3 declared bytes one was returned by a read_all and the others were
\* drained; the counter is 0 and a byte of the next request is on the channel
C28_Witness ==
    /\ iter.declared = 3 /\ pos = 3 /\ remaining = 0 /\ Len(wire) = 4
    /\ \E t, u \in Holders :
          /\ task[t].ret = Ret("read_all", TRUE, <<<<1, 1>>>>)
          /\ task[u].ret = Ret("drain", TRUE, <<>>)

\* C24: a drain that finds the counter at 0 returns Ok without reading: the
\* position of the channel and the counter are as before.
C24_DrainIdempotent ==
    [][\A t \in Holders :
          (task[t].op = "drain" /\ task[t].at = "held" /\ remaining = 0 /\ task'[t] # task[t]) =>
              /\ task'[t].ret = Ret("drain", TRUE, <<>>)
              /\ pos' = pos /\ remaining' = 0 /\ lock' = 0]_vars

\* two drains have returned Ok: the first took the 3 declared bytes, the
\* second found the counter at 0 and left the byte that follows on the channel
C24_Witness ==
    /\ iter.declared = 3 /\ pos = 3 /\ remaining = 0 /\ Len(wire) = 4
    /\ \A t \in Holders : task[t].ret = Ret("drain", TRUE, <<>>)

\* the chunks follow one another on the channel without a gap
Contiguous(chunks) == \A i \in 1..(Len(chunks) - 1) : chunks[i + 1][1] = chunks[i][2] + 1

\* the chunks a task's last call returned
Returned(t) == IF task[t].ret = None THEN <<>> ELSE task[t].ret[1].chunks

\* C29: the operations on one BodyReader exclude one another: at most one
\* task is inside one, the chunks returned to different tasks do not
\* overlap, and what a read_all returns is one run of body bytes without a
\* gap that ends where the body ends.
C29_ReadAllContiguous ==
    /\ \A t, u \in Holders : (task[t].at = "held" /\ task[u].at = "held") => t = u
    /\ \A t, u \in Holders : \A i \in 1..Len(Returned(t)), j \in 1..Len(Returned(u)) :
          (t # u) => (Returned(t)[i][2] < Returned(u)[j][1] \/ Returned(u)[j][2] < Returned(t)[i][1])
    /\ \A t \in Holders :
          (task[t].ret # None /\ task[t].ret[1].op = "read_all" /\ task[t].ret[1].ok) =>
              /\ Contiguous(Returned(t))
              /\ Returned(t) # <<>> => Returned(t)[Len(Returned(t))][2] = pos

(***************************************************************************)
(* The Extensions store of a request on its own, shared by tasks that call *)
(* insert, get and get_sync_unsafe on it and drop the handles they got.    *)
(* The store holds values of one type, ContentLength: req.content_length.  *)
(***************************************************************************)
\* a task that is not in a call; `handle` tells whether it holds an Ext
ExtIdle == [op |-> "idle", at |-> "none", handle |-> FALSE, arg |-> 0]

ExtValues == {1, 2}

\* Extensions::new, or a store that holds a value already
ExtInit ==
    /\ wire = <<>>
    /\ peer_closes = FALSE
    /\ pos = 0
    /\ out = 0
    /\ keep_alive_timeout = ConnectionNew.keep_alive_timeout
    /\ keep_alive_max = ConnectionNew.keep_alive_max
    /\ events_handler = ConnectionNew.events_handler
    /\ handled_req_count = 0
    /\ pc = "Created"
    /\ rx = RxLine
    /\ \E stored \in {None} \cup {Some(v) : v \in ExtValues} :
          req = [NoRequest EXCEPT !.content_length = stored]
    /\ remaining = 0
    /\ res = NoResponse
    /\ iter = NewIter
    /\ prev = Summary(NewIter)
    /\ LibIdle
    /\ lock = 0
    /\ task = [t \in Holders |-> ExtIdle]
    /\ server = NoServer

\* what a step of the store leaves alone
ext_rest == <<wire, peer_closes, pos, out, config, handled_req_count, pc, rx, remaining, res,
              iter, prev, builder, written, table, reparsed, server>>

\* a task calls insert or get and awaits map.lock(); a task that holds a
\* handle can do so as well
ExtCall(t) ==
    /\ task[t].op = "idle"
    /\ \E op \in {"insert", "get"}, v \in ExtValues :
          task' = [task EXCEPT ![t].op = op, ![t].at = "lock",
                               ![t].arg = IF op = "insert" THEN v ELSE 0]
    /\ UNCHANGED <<ext_rest, req, lock>>

\* Extensions::insert: the lock is granted, the value replaces the stored
\* one and the guard, a temporary, is dropped with the statement
ExtInsert(t) ==
    /\ task[t].op = "insert" /\ task[t].at = "lock"
    /\ lock = 0
    /\ req' = [req EXCEPT !.content_length = Some(task[t].arg)]
    /\ task' = [task EXCEPT ![t] = [ExtIdle EXCEPT !.handle = task[t].handle]]
    /\ UNCHANGED <<ext_rest, lock>>

\* ExtGet with the lock not awaited
ExtGetUnlocked(t) ==
    /\ task[t].op = "get" /\ task[t].at = "lock"
    /\ IF req.content_length = None
       THEN /\ task' = [task EXCEPT ![t] = [ExtIdle EXCEPT !.handle = task[t].handle]]
            /\ UNCHANGED lock
       ELSE /\ lock' = t
            /\ task' = [task EXCEPT ![t] = [ExtIdle EXCEPT !.handle = TRUE]]
    /\ UNCHANGED <<ext_rest, req>>

\* Extensions::get: the lock is granted; guard_to_ext returns None and drops
\* the guard when no value is stored, and else the handle that keeps the guard
ExtGet(t) ==
    /\ task[t].op = "get" /\ task[t].at = "lock"
    /\ lock = 0
    /\ IF req.content_length = None
       THEN /\ task' = [task EXCEPT ![t] = [ExtIdle EXCEPT !.handle = task[t].handle]]
            /\ UNCHANGED lock
       ELSE /\ lock' = t
            /\ task' = [task EXCEPT ![t] = [ExtIdle EXCEPT !.handle = TRUE]]
    /\ UNCHANGED <<ext_rest, req>>

\* Extensions::get_sync_unsafe: try_lock; the task panics when the lock is
\* held, and its own handle is dropped as it unwinds
ExtGetSyncUnsafe(t) ==
    /\ task[t].op = "idle"
    /\ IF lock # 0
       THEN /\ task' = [task EXCEPT ![t] = [ExtIdle EXCEPT !.op = "panicked"]]
            /\ lock' = IF lock = t THEN 0 ELSE lock
       ELSE IF req.content_length = None
       THEN UNCHANGED <<task, lock>>
       ELSE /\ lock' = t
            /\ task' = [task EXCEPT ![t].handle = TRUE]
    /\ UNCHANGED <<ext_rest, req>>

\* a task drops the handle it holds: the guard unlocks the mutex
ExtDrop(t) ==
    /\ task[t].op = "idle" /\ task[t].handle
    /\ lock' = 0
    /\ task' = [task EXCEPT ![t].handle = FALSE]
    /\ UNCHANGED <<ext_rest, req>>

ExtNext ==
    \E t \in Holders :
        \/ ExtCall(t)
        \/ ExtInsert(t)
        \/ ExtGet(t)
        \/ ExtGetSyncUnsafe(t)
        \/ ExtDrop(t)

ExtSpec == ExtInit /\ [][ExtNext]_vars

\* the tasks that hold a handle
Live == {t \in Holders : task[t].handle}

\* C21: at most one handle of a store is live, and the lock is held exactly
\* while one is; while a handle is live no insert executes and no get
\* completes, so a task that awaits get or insert while it holds the live
\* handle itself never gets on.
C21_HandleExclusive ==
    /\ [](Cardinality(Live) <= 1 /\ (lock # 0 <=> Live # {}) /\ (lock # 0 => lock \in Live))
    /\ [][lock # 0 => (req' = req /\ \A t \in Holders : task[t].at = "lock" => task'[t] = task[t])]_vars
    /\ [][\A t \in Holders : (task[t].handle /\ task[t].at = "lock") =>
              (task'[t] = task[t] /\ lock' = t /\ req' = req)]_vars

\* a task awaits get while it holds the live handle, and another task's
\* insert waits behind it
C21_Witness ==
    \E t, u \in Holders :
        /\ task[t].handle /\ task[t].op = "get" /\ task[t].at = "lock"
        /\ task[u].op = "insert" /\ task[u].at = "lock" /\ ~task[u].handle
        /\ lock = t

(***************************************************************************)
(* run_server: the listener is bound, then the loop accepts for ever. A    *)
(* connection accepted is handed to a task of its own, an accept that      *)
(* fails is reported to the handler's callback, which the loop awaits.     *)
(* `task` holds the connection tasks spawned, in the order of spawning.    *)
(***************************************************************************)
\* Largest number of accepts that are explored.
MaxAccepts == 4

\* run_server is called: nothing is bound yet; the handler passed in is
\* handler 0, and `clones` counts the clones made of it
ServerStart == [at |-> "bind", accepts |-> 0, failed |-> 0, clones |-> 0, reported |-> 0]

ServerInit ==
    /\ EngineIdle
    /\ LibIdle
    /\ lock = 0
    /\ task = <<>>
    /\ server = ServerStart

server_rest == <<engine, builder, written, table, reparsed, lock>>

\* TcpListener::bind(addr).await?: an error of bind is returned to the caller
ServerBind ==
    /\ server.at = "bind"
    /\ \E ok \in BOOLEAN :
          server' = [server EXCEPT !.at = IF ok THEN "accept" ELSE "returned"]
    /\ UNCHANGED <<server_rest, task>>

\* accept returns a stream: Connection::new, handle_with is spawned with a
\* clone of the handler, and the loop goes on to the next accept
AcceptOk ==
    /\ server.at = "accept"
    /\ server.accepts < MaxAccepts
    /\ server' = [server EXCEPT !.accepts = @ + 1, !.clones = @ + 1]
    /\ task' = Append(task, [handler |-> server.clones + 1, at |-> "running"])
    /\ UNCHANGED server_rest

\* AcceptErr with the error returned to the caller of run_server
AcceptErrReturns ==
    /\ server.at = "accept"
    /\ server.accepts < MaxAccepts
    /\ server' = [server EXCEPT !.accepts = @ + 1, !.failed = @ + 1, !.at = "returned"]
    /\ UNCHANGED <<server_rest, task>>

\* accept returns an error: it is logged and passed to
\* handle_connection_error of a clone of the handler, which the loop awaits
AcceptErr ==
    /\ server.at = "accept"
    /\ server.accepts < MaxAccepts
    /\ server' = [server EXCEPT !.accepts = @ + 1, !.failed = @ + 1, !.clones = @ + 1,
                                !.reported = @ + 1, !.at = "callback"]
    /\ UNCHANGED <<server_rest, task>>

\* handle_connection_error returns: the loop is at accept again
CallbackReturns ==
    /\ server.at = "callback"
    /\ server' = [server EXCEPT !.at = "accept"]
    /\ UNCHANGED <<server_rest, task>>

\* handle_with of a spawned connection returns
TaskEnds(i) ==
    /\ task[i].at = "running"
    /\ task' = [task EXCEPT ![i].at = "finished"]
    /\ UNCHANGED <<server_rest, server>>

ServerNext ==
    \/ ServerBind
    \/ AcceptOk
    \/ AcceptErr
    \/ CallbackReturns
    \/ \E i \in DOMAIN task : TaskEnds(i)

ServerSpec == ServerInit /\ [][ServerNext]_vars

\* the loop is running: the listener is bound and run_server has not returned
Looping == server.at \in {"accept", "callback"}

\* C23: once the listener is bound the loop never ends; every failed accept
\* is passed to the callback of a clone of the handler, and from the callback
\* the loop goes back to accept; every successful accept spawns exactly one
\* connection task, each with a handler clone of its own, and the next
\* accept is attempted whether or not the tasks spawned have finished.
C23_AcceptLoopGoesOn ==
    /\ [][Looping => Looping']_vars
    /\ [](server.reported = server.failed /\ Len(task) = server.accepts - server.failed)
    /\ [](\A i, j \in DOMAIN task : (task[i].handler = task[j].handler => i = j) /\ task[i].handler # 0)
    /\ [][server.at = "callback" /\ server' # server => server'.at = "accept"]_vars
    /\ [][server'.accepts # server.accepts
            => /\ server.at = "accept" /\ server'.accepts = server.accepts + 1
               /\ \/ server'.at = "accept" /\ Len(task') = Len(task) + 1
                  \/ server'.at = "callback" /\ task' = task /\ server'.reported = server.reported + 1]_vars
    /\ []((server.at = "accept" /\ server.accepts < MaxAccepts) => ENABLED AcceptOk)

\* the loop is at accept again after a failed accept and a successful one,
\* while the task spawned has not finished
C23_Witness ==
    /\ server.at = "accept"
    /\ server.failed >= 1 /\ server.reported >= 1
    /\ server.accepts >= 3
    /\ \E i \in DOMAIN task : task[i].at = "running"

(***************************************************************************)
(* C22: the connection task does not panic.                                *)
(***************************************************************************)
\* the points of handle_with at which a task that has not panicked stands
EnginePoints == {"Created", "AwaitingRequest", "Dispatching", "Draining", "Responding", "Closed"}

\* the loop goes on to the next iteration
LoopsBack == handled_req_count' = handled_req_count + 1 /\ pc # "Created"

\* C22: whatever the peer sends, the task never panics: the lock of the
\* request's store is free whenever it is looked at, so content_len never
\* panics; a read of the body never takes more bytes than the counter
\* holds, so the counter never goes below 0; and an iteration ends either
\* with its response written and the loop going on, or with the loop left.
C22_NoPanic ==
    /\ [](pc \in EnginePoints)
    /\ [](lock = 0)
    /\ [](remaining >= 0)
    /\ [][(pc \in {"Dispatching", "Draining"}) => (pos' - pos <= remaining)]_vars
    /\ [][LoopsBack => (iter.wrote /\ pc = "Responding")]_vars
    /\ [][(pc' # pc /\ pc \in {"AwaitingRequest", "Dispatching", "Draining", "Responding"})
             => pc' \in EnginePoints]_vars

\* a request with a Content-Length has been received, its store has been
\* looked up and bytes of its body have been subtracted from the counter
C22_Witness ==
    /\ pc = "Closed"
    /\ iter.outcome = "Ok"
    /\ req.content_length # None
    /\ iter.declared >= 2
    /\ remaining < iter.declared
    /\ iter.wrote

(***************************************************************************)
(* C32: the request limit and the number of receive attempts.              *)
(***************************************************************************)
Max(a, b) == IF a > b THEN a ELSE b

DrainReturnsOk(t) ==
    /\ task[t].op = "drain" /\ task[t].at = "held"
    /\ task'[t].op = "idle"
    /\ task'[t].ret = Ret("drain", TRUE, <<>>)

\* C33: whenever drain() returns Ok the counter is 0, also when the peer
\* closed the stream before it had sent the declared bytes, so that a next()
\* or drain() that is called afterwards finds the counter at 0 and returns
\* without a read of the channel.
C33_DrainOkMeansDrained ==
    [][\A t \in Holders : DrainReturnsOk(t) => remaining' = 0]_vars

(***************************************************************************)
(* The connection loop with what its scheduling guarantees: a step of the  *)
(* task that can be taken is taken. The timer of the receive fires unless  *)
(* the receive has ended before; a read of drain completes when its bytes  *)
(* are there or the peer has closed; a write or a flush that does not fail *)
(* completes. A failure of a read or of a write is the environment's       *)
(* choice and is never forced, and so is the return of the request handler.*)
(***************************************************************************)
Fairness ==
    /\ WF_vars(HandleWith)
    /\ WF_vars(ReceiveTimeout)
    /\ WF_vars(DrainRead)
    /\ WF_vars(DrainDone)
    /\ WF_vars(SendWrite)
    /\ WF_vars(SendFlush)

LiveSpec == Init /\ [][Next]_vars /\ Fairness

\* the peer has stopped sending and keeps the socket open: every byte of
\* the wire has been taken and no end of stream will come
PeerStalled == ~peer_closes /\ pos = Len(wire)

\* the connections whose request limit is reached within the iterations explored
WithinIterations == keep_alive_max <= MaxIterations

\* the request handler, whenever it is called, returns
HandlerReturns == []<>(pc # "Dispatching")

\* C31: a connection whose peer stops sending at any point without closing
\* the socket reaches Closed, provided the request handler returns and the
\* writes complete or fail; so does one whose peer declared a
\* Content-Length and sent fewer body bytes.
C31_StalledPeerIsClosed ==
    (WithinIterations /\ ~peer_closes /\ HandlerReturns) => <>(pc = "Closed")
====
